---- MODULE Spec2Model ----
(***************************************************************************)
(* TripBuilder <-> GoHighLevel synchronisation layer.                      *)
(*                                                                         *)
(* The module models                                                       *)
(*   - the field value codec of tripbuilder/field_mapping.py,              *)
(*   - the single-record pulls of tripbuilder/services/two_way_sync.py,    *)
(*   - the full sync orchestration of tripbuilder/services/ghl_sync.py.    *)
(*                                                                         *)
(* Python values are tagged records [t, v]; Python strings are TLA+        *)
(* strings and are parsed character by character.                          *)
(***************************************************************************)
EXTENDS Integers, Sequences, FiniteSets, TLC

(***************************************************************************)
(* Python / JSON values                                                    *)
(***************************************************************************)
NoneV == [t |-> "none", v |-> 0]
BoolV(b) == [t |-> "bool", v |-> b]
IntV(n) == [t |-> "int", v |-> n]
\* a float is kept as its number of tenths
FloatV(tenths) == [t |-> "float", v |-> tenths]
StrV(s) == [t |-> "str", v |-> s]
\* a datetime.date is kept as <<year, month, day>>
DateV(y, m, d) == [t |-> "date", v |-> <<y, m, d>>]
\* dict.get on a key that is not there
Absent == [t |-> "absent", v |-> 0]

\* Python truthiness of a value ("if value")
Truthy(x) ==
    CASE x.t = "none" -> FALSE
      [] x.t = "bool" -> x.v
      [] x.t = "int" -> x.v # 0
      [] x.t = "float" -> x.v # 0
      [] x.t = "str" -> x.v # ""
      [] OTHER -> TRUE

EmptyDict == [k \in {} |-> NoneV]

\* dict.get(key) : None when the key is missing
DictGet(d, k) == IF k \in DOMAIN d THEN d[k] ELSE NoneV

\* d[k] = x
DictSet(d, k, x) == [j \in (DOMAIN d) \cup {k} |-> IF j = k THEN x ELSE d[j]]

(***************************************************************************)
(* Strings                                                                 *)
(***************************************************************************)
CharAt(s, i) == SubSeq(s, i, i)

Digits == "0123456789"
UpperChars == "ABCDEFGHIJKLMNOPQRSTUVWXYZ"
LowerChars == "abcdefghijklmnopqrstuvwxyz"

IsDigit(c) == \E i \in 1..10 : CharAt(Digits, i) = c
DigitVal(c) == (CHOOSE i \in 1..10 : CharAt(Digits, i) = c) - 1

AllDigits(s) == Len(s) > 0 /\ \A i \in 1..Len(s) : IsDigit(CharAt(s, i))

RECURSIVE DigitsVal(_)
DigitsVal(s) ==
    IF Len(s) = 0 THEN 0
    ELSE 10 * DigitsVal(SubSeq(s, 1, Len(s) - 1)) + DigitVal(CharAt(s, Len(s)))

LowerChar(c) ==
    IF \E i \in 1..26 : CharAt(UpperChars, i) = c
    THEN CharAt(LowerChars, CHOOSE i \in 1..26 : CharAt(UpperChars, i) = c)
    ELSE c

\* str.lower()
RECURSIVE Lower(_)
Lower(s) == IF Len(s) = 0 THEN "" ELSE LowerChar(CharAt(s, 1)) \o Lower(Tail(s))

\* str.replace('Z', '+00:00')
RECURSIVE ReplaceZ(_)
ReplaceZ(s) ==
    IF Len(s) = 0 THEN ""
    ELSE (IF CharAt(s, 1) = "Z" THEN "+00:00" ELSE CharAt(s, 1)) \o ReplaceZ(Tail(s))

\* decimal digits of a natural number
RECURSIVE NatToStr(_)
NatToStr(n) ==
    IF n < 10 THEN CharAt(Digits, n + 1)
    ELSE NatToStr(n \div 10) \o CharAt(Digits, (n % 10) + 1)

IntToStr(n) == IF n < 0 THEN "-" \o NatToStr(0 - n) ELSE NatToStr(n)

\* zero padded to width w
RECURSIVE Pad(_, _)
Pad(s, w) == IF Len(s) >= w THEN s ELSE Pad("0" \o s, w)

\* str(value)
PyStr(x) ==
    CASE x.t = "str" -> x.v
      [] x.t = "int" -> IntToStr(x.v)
      [] x.t = "bool" -> IF x.v THEN "True" ELSE "False"
      [] x.t = "float" ->
            IF x.v < 0
            THEN "-" \o NatToStr((0 - x.v) \div 10) \o "." \o NatToStr((0 - x.v) % 10)
            ELSE NatToStr(x.v \div 10) \o "." \o NatToStr(x.v % 10)
      [] x.t = "date" ->
            Pad(NatToStr(x.v[1]), 4) \o "-" \o Pad(NatToStr(x.v[2]), 2)
                \o "-" \o Pad(NatToStr(x.v[3]), 2)
      [] OTHER -> "None"

(***************************************************************************)
(* Conversions that can raise: the result is Raise or [ok |-> TRUE, v]     *)
(***************************************************************************)
Raise == [ok |-> FALSE, v |-> NoneV]
Ok(x) == [ok |-> TRUE, v |-> x]

IsLeap(y) == (y % 4 = 0 /\ y % 100 # 0) \/ y % 400 = 0

DaysInMonth(y, m) ==
    CASE m \in {1, 3, 5, 7, 8, 10, 12} -> 31
      [] m \in {4, 6, 9, 11} -> 30
      [] OTHER -> IF IsLeap(y) THEN 29 ELSE 28

\* "HH", "HH:MM", "HH:MM:SS", "HH:MM:SS.fff", "HH:MM:SS.ffffff"
ValidClock(s) ==
    /\ Len(s) \in {2, 5, 8, 12, 15}
    /\ AllDigits(SubSeq(s, 1, 2)) /\ DigitsVal(SubSeq(s, 1, 2)) < 24
    /\ Len(s) >= 5 =>
          /\ CharAt(s, 3) = ":"
          /\ AllDigits(SubSeq(s, 4, 5)) /\ DigitsVal(SubSeq(s, 4, 5)) < 60
    /\ Len(s) >= 8 =>
          /\ CharAt(s, 6) = ":"
          /\ AllDigits(SubSeq(s, 7, 8)) /\ DigitsVal(SubSeq(s, 7, 8)) < 60
    /\ Len(s) >= 12 => CharAt(s, 9) = "." /\ AllDigits(SubSeq(s, 10, Len(s)))

\* the time part of an ISO string: clock, then an optional +HH:MM / -HH:MM offset
ValidTimePart(s) ==
    LET signs == {i \in 1..Len(s) : CharAt(s, i) \in {"+", "-"}}
    IN  IF signs = {} THEN ValidClock(s)
        ELSE LET p == CHOOSE i \in signs : \A j \in signs : i <= j
             IN  /\ ValidClock(SubSeq(s, 1, p - 1))
                 /\ ValidClock(SubSeq(s, p + 1, Len(s)))
                 /\ Len(s) - p \in {5, 8, 15}

\* datetime.fromisoformat(s).date()
FromIsoFormatDate(s) ==
    IF /\ Len(s) >= 10
       /\ AllDigits(SubSeq(s, 1, 4))
       /\ CharAt(s, 5) = "-"
       /\ AllDigits(SubSeq(s, 6, 7))
       /\ CharAt(s, 8) = "-"
       /\ AllDigits(SubSeq(s, 9, 10))
       /\ (Len(s) = 10 \/ (Len(s) >= 12 /\ ValidTimePart(SubSeq(s, 12, Len(s)))))
    THEN LET y == DigitsVal(SubSeq(s, 1, 4))
             m == DigitsVal(SubSeq(s, 6, 7))
             d == DigitsVal(SubSeq(s, 9, 10))
         IN  IF y >= 1 /\ m \in 1..12 /\ d >= 1 /\ d <= DaysInMonth(y, m)
             THEN Ok(DateV(y, m, d))
             ELSE Raise
    ELSE Raise

\* the civil date that lies `days` days after 1970-01-01
CivilFromDays(days) ==
    LET z == days + 719468
        era == z \div 146097
        doe == z - era * 146097
        yoe == (doe - (doe \div 1460) + (doe \div 36524) - (doe \div 146096)) \div 365
        doy == doe - (365 * yoe + (yoe \div 4) - (yoe \div 100))
        mp == (5 * doy + 2) \div 153
        d == doy - ((153 * mp + 2) \div 5) + 1
        m == IF mp < 10 THEN mp + 3 ELSE mp - 9
        y == yoe + era * 400 + (IF m <= 2 THEN 1 ELSE 0)
    IN  DateV(y, m, d)

\* the number a bool, int or float stands for, in tenths
Tenths(x) ==
    CASE x.t = "bool" -> IF x.v THEN 10 ELSE 0
      [] x.t = "int" -> 10 * x.v
      [] OTHER -> x.v

\* datetime.fromtimestamp(value / 1000).date() in a process whose local time
\* is tzMs milliseconds ahead of UTC
FromTimestampDate(x, tzMs) ==
    Ok(CivilFromDays((Tenths(x) + 10 * tzMs) \div 864000000))

\* float(s) for a str: optional sign, digits, optional fraction (kept to tenths)
ParseFloatStr(s) ==
    LET signed == Len(s) > 0 /\ CharAt(s, 1) \in {"+", "-"}
        body == IF signed THEN Tail(s) ELSE s
        dots == {i \in 1..Len(body) : CharAt(body, i) = "."}
        p == IF dots = {} THEN Len(body) + 1 ELSE CHOOSE i \in dots : \A j \in dots : i <= j
        ip == SubSeq(body, 1, p - 1)
        fp == SubSeq(body, p + 1, Len(body))
        mag == 10 * (IF Len(ip) = 0 THEN 0 ELSE DigitsVal(ip))
                 + (IF Len(fp) = 0 THEN 0 ELSE DigitVal(CharAt(fp, 1)))
    IN  IF /\ Len(ip) + Len(fp) > 0
           /\ Len(ip) > 0 => AllDigits(ip)
           /\ Len(fp) > 0 => AllDigits(fp)
        THEN Ok(FloatV(IF signed /\ CharAt(s, 1) = "-" THEN 0 - mag ELSE mag))
        ELSE Raise

\* float(value)
PyFloat(x) ==
    CASE x.t \in {"bool", "int", "float"} -> Ok(FloatV(Tenths(x)))
      [] x.t = "str" -> ParseFloatStr(x.v)
      [] OTHER -> Raise

\* int(f) for a float f: truncation toward zero
TruncTenths(t) == IF t >= 0 THEN t \div 10 ELSE 0 - ((0 - t) \div 10)

\* int(float(value))
PyIntOfFloat(x) ==
    LET f == PyFloat(x) IN IF f.ok THEN Ok(IntV(TruncTenths(f.v.v))) ELSE Raise

(***************************************************************************)
(* field_mapping.py : the static mapping, GHL field key -> DB column,      *)
(* as a sequence of <<field key, column>> pairs in source order            *)
(***************************************************************************)
TRIP_FIELD_MAP ==
    << <<"opportunity.tripname", "name">>,
       <<"opportunity.destination", "destination">>,
       <<"opportunity.tripdescription", "trip_description">>,
       <<"opportunity.arrivaldate", "arrival_date">>,
       <<"opportunity.returndate", "return_date">>,
       <<"opportunity.depositdate", "deposit_date">>,
       <<"opportunity.finalpayment", "final_payment">>,
       <<"opportunity.maxpassengers", "max_passengers">>,
       <<"opportunity.passengercount", "passenger_count">>,
       <<"opportunity.tripstandardlevelpricing", "trip_standard_level_pricing">>,
       <<"opportunity.tripvendor", "trip_vendor">>,
       <<"opportunity.vendorterms", "vendor_terms">>,
       <<"opportunity.travelbusinessused", "travel_business_used">>,
       <<"opportunity.travelcategory", "travel_category">>,
       <<"opportunity.nights", "nights_total">>,
       <<"opportunity.lodging", "lodging">>,
       <<"opportunity.lodgingnotes", "lodging_notes">>,
       <<"opportunity.internaltripdetails", "internal_trip_details">>,
       <<"opportunity.birthcountry", "birth_country">>,
       <<"opportunity.passengerid", "passenger_id">>,
       <<"opportunity.passengername", "passenger_first_name">>,
       <<"opportunity.passengernumber", "passenger_number">>,
       <<"opportunity.tripid", "trip_id_custom">>,
       <<"opportunity.ischild", "is_child">> >>

PASSENGER_FIELD_MAP ==
    << <<"opportunity.tripname", "trip_name">>,
       <<"contact.firstname", "firstname">>,
       <<"contact.lastname", "lastname">>,
       <<"contact.email", "email">>,
       <<"contact.phone", "phone">>,
       <<"opportunity.userroomate", "user_roomate">>,
       <<"opportunity.roomoccupancy", "room_occupancy">>,
       <<"opportunity.passportnumber", "passport_number">>,
       <<"opportunity.passportexpire", "passport_expire">>,
       <<"opportunity.passportfile", "passport_file">>,
       <<"opportunity.passportcountry", "passport_country">>,
       <<"opportunity.healthstate", "health_state">>,
       <<"opportunity.healthmedicalinfo", "health_medical_info">>,
       <<"opportunity.primaryphy", "primary_phy">>,
       <<"opportunity.physicianphone", "physician_phone">>,
       <<"opportunity.medicationlist", "medication_list">>,
       <<"opportunity.contact1ulastname", "contact1_ulast_name">>,
       <<"opportunity.contact1ufirstname", "contact1_ufirst_name">>,
       <<"opportunity.contact1urelationship", "contact1_urelationship">>,
       <<"opportunity.contact1umailingaddress", "contact1_umailing_address">>,
       <<"opportunity.contact1ucity", "contact1_ucity">>,
       <<"opportunity.contact1uzip", "contact1_uzip">>,
       <<"opportunity.contact1uemail", "contact1_uemail">>,
       <<"opportunity.contact1uphone", "contact1_uphone">>,
       <<"opportunity.contact1umobnumber", "contact1_umob_number">>,
       <<"opportunity.contact1ustate", "contact1_ustate">>,
       <<"opportunity.formsubmitteddate", "form_submitted_date">>,
       <<"opportunity.travelcategorylicense", "travel_category_license">>,
       <<"opportunity.passengersignature", "passenger_signature">>,
       <<"opportunity.reservation", "reservation">>,
       <<"opportunity.mou", "mou">>,
       <<"opportunity.affidavit", "affidavit">> >>

Range(f) == {f[i] : i \in DOMAIN f}

\* the columns a mapping names
MapColumns(field_map) == {p[2] : p \in Range(field_map)}

(***************************************************************************)
(* Wire format.  A customFields value is a JSON list or something else; an *)
(* element is a JSON object or something else; a key of an object holds a  *)
(* value or is Absent.                                                     *)
(***************************************************************************)
WireEntry(id, fieldValue, fieldValueString) ==
    [kind |-> "dict", id |-> id, fieldValue |-> fieldValue,
     fieldValueString |-> fieldValueString]
NotADict == [kind |-> "other", id |-> Absent, fieldValue |-> Absent,
             fieldValueString |-> Absent]
WireList(items) == [kind |-> "list", items |-> items]
NotAList == [kind |-> "other", items |-> << >>]

\* field.get(key): AttributeError on anything that is not a dict
FieldGet(field, key) ==
    IF field.kind # "dict" THEN Raise
    ELSE Ok(IF field[key] = Absent THEN NoneV ELSE field[key])

\* ParseStep without the isinstance(field, dict) guard
ParseStep_NoDictCheck(acc, field) ==
    IF acc.raised THEN acc
    ELSE LET field_id == FieldGet(field, "id")
             field_value == FieldGet(field, "fieldValue")
         IN  IF ~field_id.ok \/ ~field_value.ok THEN [acc EXCEPT !.raised = TRUE]
             ELSE IF Truthy(field_id.v)
                  THEN [acc EXCEPT !.d = DictSet(acc.d, field_id.v, field_value.v)]
                  ELSE acc

\* one iteration of the loop of parse_ghl_custom_fields on accumulator acc
ParseStep(acc, field) ==
    IF acc.raised THEN acc
    ELSE IF field.kind # "dict" THEN acc
    ELSE LET field_id == FieldGet(field, "id")
             field_value == FieldGet(field, "fieldValue")
         IN  IF ~field_id.ok \/ ~field_value.ok THEN [acc EXCEPT !.raised = TRUE]
             ELSE IF Truthy(field_id.v)
                  THEN [acc EXCEPT !.d = DictSet(acc.d, field_id.v, field_value.v)]
                  ELSE acc

RECURSIVE ParseLoop(_, _)
ParseLoop(acc, items) ==
    IF items = << >> THEN acc ELSE ParseLoop(ParseStep(acc, Head(items)), Tail(items))

\* parse_ghl_custom_fields: [raised, d] with d keyed by the entries' id values
parse_ghl_custom_fields(custom_fields_list) ==
    IF custom_fields_list.kind # "list" THEN [raised |-> FALSE, d |-> EmptyDict]
    ELSE ParseLoop([raised |-> FALSE, d |-> EmptyDict], custom_fields_list.items)

(***************************************************************************)
(* Decoding.  A conversion sets the column, skips it, or raises.           *)
(***************************************************************************)
SetTo(x) == [kind |-> "set", v |-> x]
Skip == [kind |-> "skip", v |-> NoneV]
Raised == [kind |-> "raise", v |-> NoneV]

\* try: mapped[column] = <r>  except: pass
TryExceptPass(r) == IF r.ok THEN SetTo(r.v) ELSE Skip

TRIP_DATE_COLUMNS ==
    {"arrival_date", "return_date", "deposit_date", "final_payment", "start_date", "end_date"}
TRIP_INTEGER_COLUMNS ==
    {"max_passengers", "passenger_number", "passenger_count", "nights_total",
     "trip_id_custom", "current_passengers"}
TRIP_DECIMAL_COLUMNS == {"trip_standard_level_pricing", "base_price"}
TRIP_BOOLEAN_COLUMNS == {"is_child"}
PASSENGER_DATE_COLUMNS == {"passport_expire", "form_submitted_date", "date_of_birth"}
PASSENGER_BOOLEAN_COLUMNS == {"registration_completed", "documents_completed"}

TRUE_TOKENS == {"true", "yes", "1"}

\* the date branch without its try / except
ConvertDate_Unguarded(value, tzMs) ==
    LET r == IF value.t = "str" THEN FromIsoFormatDate(ReplaceZ(value.v))
             ELSE FromTimestampDate(value, tzMs)
    IN  IF value.t \in {"str", "int", "float", "bool"}
        THEN (IF r.ok THEN SetTo(r.v) ELSE Raised)
        ELSE Skip

\* the date branch
ConvertDate(value, tzMs) ==
    IF value.t = "str" THEN TryExceptPass(FromIsoFormatDate(ReplaceZ(value.v)))
    ELSE IF value.t \in {"int", "float", "bool"}
         THEN TryExceptPass(FromTimestampDate(value, tzMs))
         ELSE Skip

\* the integer branch: int(float(value)) if value else None
ConvertInteger(value) ==
    TryExceptPass(IF Truthy(value) THEN PyIntOfFloat(value) ELSE Ok(NoneV))

\* the decimal branch: float(value) if value else None
ConvertDecimal(value) ==
    TryExceptPass(IF Truthy(value) THEN PyFloat(value) ELSE Ok(NoneV))

\* the boolean branch
ConvertBoolean(value) ==
    IF value.t = "bool" THEN SetTo(value)
    ELSE IF value.t = "str" THEN SetTo(BoolV(Lower(value.v) \in TRUE_TOKENS))
    ELSE Skip

\* the string branch: str(value) if value else None
ConvertString(value) ==
    SetTo(IF Truthy(value) THEN StrV(PyStr(value)) ELSE NoneV)

\* the body of the loop of map_trip_custom_fields for one column
TripConvert(column_name, value, tzMs) ==
    IF value = NoneV THEN Skip
    ELSE IF column_name \in TRIP_DATE_COLUMNS THEN ConvertDate(value, tzMs)
    ELSE IF column_name \in TRIP_INTEGER_COLUMNS THEN ConvertInteger(value)
    ELSE IF column_name \in TRIP_DECIMAL_COLUMNS THEN ConvertDecimal(value)
    ELSE IF column_name \in TRIP_BOOLEAN_COLUMNS THEN ConvertBoolean(value)
    ELSE ConvertString(value)

\* the body of the loop of map_passenger_custom_fields for one column
PassengerConvert(column_name, value, tzMs) ==
    IF value = NoneV THEN Skip
    ELSE IF column_name \in PASSENGER_DATE_COLUMNS THEN ConvertDate(value, tzMs)
    ELSE IF column_name \in PASSENGER_BOOLEAN_COLUMNS THEN ConvertBoolean(value)
    ELSE ConvertString(value)

\* the body of the mapping loop of the given entity for one column
ConvertOf(ent, column_name, value, tzMs) ==
    IF ent = "trip" THEN TripConvert(column_name, value, tzMs)
    ELSE PassengerConvert(column_name, value, tzMs)

\* the result of a mapping loop: [raised, mapped], mapped: column -> value
MapWith(field_map, ent, custom_fields, tzMs) ==
    LET res == [p \in Range(field_map) |->
                    ConvertOf(ent, p[2], DictGet(custom_fields, StrV(p[1])), tzMs)]
        cols == {p[2] : p \in {q \in Range(field_map) : res[q].kind = "set"}}
    IN  [raised |-> \E p \in Range(field_map) : res[p].kind = "raise",
         mapped |-> [c \in cols |->
                        res[CHOOSE p \in Range(field_map) : p[2] = c].v]]

map_trip_custom_fields(custom_fields, tzMs) ==
    MapWith(TRIP_FIELD_MAP, "trip", custom_fields, tzMs)

map_passenger_custom_fields(custom_fields, tzMs) ==
    MapWith(PASSENGER_FIELD_MAP, "passenger", custom_fields, tzMs)

(***************************************************************************)
(* Encoding                                                                *)
(***************************************************************************)
\* reverse_map.get(column_name): the field key of a column, None if unmapped
ReverseGet(field_map, column_name) ==
    IF column_name \in MapColumns(field_map)
    THEN StrV((CHOOSE p \in Range(field_map) : p[2] = column_name)[1])
    ELSE NoneV

\* the value put on the wire for a non-null column value
EncodeValue(value) ==
    IF value.t = "date" THEN StrV(PyStr(value))
    ELSE IF value.t = "bool" THEN StrV(Lower(PyStr(value)))
    ELSE value

\* create_ghl_custom_fields_dict: field key -> wire value
create_ghl_custom_fields_dict(model_data, field_map) ==
    LET pushed == {c \in DOMAIN model_data :
                      Truthy(ReverseGet(field_map, c)) /\ model_data[c] # NoneV}
    IN  [k \in {ReverseGet(field_map, c) : c \in pushed} |->
            EncodeValue(model_data[CHOOSE c \in pushed : ReverseGet(field_map, c) = k])]

(***************************************************************************)
(* models.py : the columns of Trip and Passenger with their semantic type  *)
(***************************************************************************)
TRIP_MODEL_COLUMNS ==
    << <<"id", "INTEGER">>,
       <<"public_id", "STRING">>,
       <<"name", "STRING">>,
       <<"destination", "STRING">>,
       <<"description", "STRING">>,
       <<"trip_description", "STRING">>,
       <<"cover_image", "STRING">>,
       <<"start_date", "DATE">>,
       <<"end_date", "DATE">>,
       <<"arrival_date", "DATE">>,
       <<"return_date", "DATE">>,
       <<"deposit_date", "DATE">>,
       <<"final_payment", "DATE">>,
       <<"max_passengers", "INTEGER">>,
       <<"current_passengers", "INTEGER">>,
       <<"passenger_count", "INTEGER">>,
       <<"base_price", "DECIMAL">>,
       <<"currency", "STRING">>,
       <<"trip_standard_level_pricing", "DECIMAL">>,
       <<"trip_vendor", "STRING">>,
       <<"trip_vendor_id", "INTEGER">>,
       <<"vendor_terms", "STRING">>,
       <<"travel_business_used", "STRING">>,
       <<"travel_category", "STRING">>,
       <<"nights_total", "INTEGER">>,
       <<"lodging", "STRING">>,
       <<"lodging_notes", "STRING">>,
       <<"internal_trip_details", "STRING">>,
       <<"status", "STRING">>,
       <<"is_public", "BOOLEAN">>,
       <<"birth_country", "STRING">>,
       <<"passenger_id", "STRING">>,
       <<"passenger_first_name", "STRING">>,
       <<"passenger_last_name", "STRING">>,
       <<"passenger_number", "INTEGER">>,
       <<"trip_id_custom", "INTEGER">>,
       <<"trip_name", "STRING">>,
       <<"is_child", "BOOLEAN">>,
       <<"ghl_opportunity_id", "STRING">>,
       <<"contact_id", "STRING">>,
       <<"created_at", "DATETIME">>,
       <<"updated_at", "DATETIME">> >>

PASSENGER_MODEL_COLUMNS ==
    << <<"id", "STRING">>,
       <<"firstname", "STRING">>,
       <<"lastname", "STRING">>,
       <<"email", "STRING">>,
       <<"phone", "STRING">>,
       <<"date_of_birth", "DATE">>,
       <<"gender", "STRING">>,
       <<"status", "STRING">>,
       <<"registration_completed", "BOOLEAN">>,
       <<"documents_completed", "BOOLEAN">>,
       <<"contact_id", "STRING">>,
       <<"trip_id", "INTEGER">>,
       <<"stage_id", "STRING">>,
       <<"reservation", "STRING">>,
       <<"mou", "STRING">>,
       <<"affidavit", "STRING">>,
       <<"health_state", "STRING">>,
       <<"health_medical_info", "STRING">>,
       <<"primary_phy", "STRING">>,
       <<"physician_phone", "STRING">>,
       <<"medication_list", "STRING">>,
       <<"user_roomate", "STRING">>,
       <<"room_occupancy", "STRING">>,
       <<"contact1_ulast_name", "STRING">>,
       <<"contact1_ufirst_name", "STRING">>,
       <<"contact1_urelationship", "STRING">>,
       <<"contact1_umailing_address", "STRING">>,
       <<"contact1_ucity", "STRING">>,
       <<"contact1_uzip", "STRING">>,
       <<"contact1_uemail", "STRING">>,
       <<"contact1_uphone", "STRING">>,
       <<"contact1_umob_number", "STRING">>,
       <<"contact1_ustate", "STRING">>,
       <<"passport_number", "STRING">>,
       <<"passport_expire", "DATE">>,
       <<"passport_file", "STRING">>,
       <<"passport_country", "STRING">>,
       <<"form_submitted_date", "DATE">>,
       <<"travel_category_license", "STRING">>,
       <<"passenger_signature", "STRING">>,
       <<"trip_name", "STRING">>,
       <<"created_at", "DATETIME">>,
       <<"updated_at", "DATETIME">>,
       <<"last_synced_at", "DATETIME">> >>


ColumnNames(model_columns) == {p[1] : p \in Range(model_columns)}
ColumnType(model_columns, c) == (CHOOSE p \in Range(model_columns) : p[1] = c)[2]

\* column defaults applied by an INSERT to the attributes that were never set
\* (created_at / updated_at take the time of the insert)
TRIP_DEFAULTS ==
    [max_passengers |-> IntV(10), current_passengers |-> IntV(0),
     passenger_count |-> IntV(0), currency |-> StrV("USD"),
     status |-> StrV("draft"), is_public |-> BoolV(FALSE)]
PASSENGER_DEFAULTS ==
    [registration_completed |-> BoolV(FALSE), documents_completed |-> BoolV(FALSE)]

\* the row an INSERT stores for a new object whose attributes `set` were assigned
InsertRow(model_columns, defaults, set, now) ==
    [c \in ColumnNames(model_columns) |->
        IF c \in DOMAIN set THEN set[c]
        ELSE IF c \in DOMAIN defaults THEN defaults[c]
        ELSE IF c \in {"created_at", "updated_at"} THEN IntV(now)
        ELSE NoneV]

\* the row an UPDATE leaves for an object whose attributes `set` were assigned
UpdateRow(row, set) == [c \in DOMAIN row |-> IF c \in DOMAIN set THEN set[c] ELSE row[c]]

\* hasattr(obj, column_name) for a model instance
HasAttr(model_columns, column_name) == column_name \in ColumnNames(model_columns)

\* for column_name, value in mapped_fields.items(): if hasattr(...): setattr(...)
ApplyMapped(model_columns, set, mapped_fields) ==
    [c \in (DOMAIN set) \cup {k \in DOMAIN mapped_fields : HasAttr(model_columns, k)} |->
        IF c \in DOMAIN mapped_fields /\ HasAttr(model_columns, c)
        THEN mapped_fields[c] ELSE set[c]]

(***************************************************************************)
(* Bounds and input domains                                                *)
(***************************************************************************)
\* longest generated customFields list / largest generated column dict
MaxFields == 2
\* number of operations of one behaviour of the pull specification
MaxClock == 2
\* number of changes made on the CRM side in one behaviour
MaxRemoteEdits == 2

\* offsets of the process' local time from UTC, in milliseconds
TzOffsets == {0, 0 - 18000000}

SampleFieldIds ==
    {StrV("opportunity.destination"), StrV("opportunity.arrivaldate"),
     StrV("opportunity.maxpassengers"), StrV("opportunity.tripstandardlevelpricing"),
     StrV("opportunity.ischild"), StrV("opportunity.tripname"),
     StrV("opportunity.passportexpire"), StrV("opportunity.passportnumber"),
     StrV("fld_1"), StrV("opportunity.unknownfield"), StrV(""), IntV(7), NoneV, Absent}

GarbageStrings == {"garbage", "2025-13-45", "06/01/2025"}

WireValues ==
    {NoneV, Absent, BoolV(TRUE), BoolV(FALSE), IntV(0), IntV(1), IntV(12),
     IntV(86400000), FloatV(0), FloatV(125),
     StrV(""), StrV("true"), StrV("TRUE"), StrV("Yes"), StrV("1"), StrV("no"),
     StrV("false"), StrV("0"), StrV("12"), StrV("12.7"), StrV("Paris"),
     StrV("86400000"),
     StrV("2025-06-01T00:00:00Z"), StrV("2025-06-01"), StrV("2024-02-29T23:59:59+05:30")}
        \cup {StrV(g) : g \in GarbageStrings}

\* every single-entry list over the sample ids and values
SingleEntryLists ==
    {WireList(<<WireEntry(id, x, Absent)>>) : id \in SampleFieldIds, x \in WireValues}

\* entries that are combined into longer lists
EntryPool ==
    {NotADict,
     WireEntry(Absent, StrV("Paris"), Absent),
     WireEntry(StrV("fld_1"), StrV("2025-06-01T00:00:00Z"), Absent),
     WireEntry(StrV("opportunity.unknownfield"), StrV("Paris"), Absent),
     WireEntry(StrV("opportunity.arrivaldate"), StrV("2025-06-01T00:00:00Z"), Absent),
     WireEntry(StrV("opportunity.arrivaldate"), StrV("garbage"), Absent),
     WireEntry(StrV("opportunity.destination"), StrV("Paris"), Absent),
     WireEntry(StrV("opportunity.destination"), Absent, StrV("Paris")),
     WireEntry(StrV("opportunity.destination"), StrV(""), Absent),
     WireEntry(StrV("opportunity.passportexpire"), StrV("garbage"), Absent),
     WireEntry(StrV("opportunity.passportnumber"), StrV("X123"), Absent)}

SeqsUpTo(S, n) == UNION {[1..k -> S] : k \in 0..n}

DecodeInputs ==
    {NotAList} \cup SingleEntryLists \cup {WireList(q) : q \in SeqsUpTo(EntryPool, MaxFields)}

NativeValues(type) ==
    CASE type = "STRING" -> {StrV(""), StrV("Paris"), StrV("12"), StrV("true")}
      [] type = "INTEGER" -> {IntV(0), IntV(1), IntV(12), IntV(0 - 3)}
      [] type = "DECIMAL" -> {FloatV(0), FloatV(125), FloatV(0 - 5)}
      [] type = "DATE" -> {DateV(2025, 6, 1), DateV(2024, 2, 29), DateV(1970, 1, 1)}
      [] type = "BOOLEAN" -> {BoolV(TRUE), BoolV(FALSE)}
      [] OTHER -> {}

FieldMapOf(entity) == IF entity = "trip" THEN TRIP_FIELD_MAP ELSE PASSENGER_FIELD_MAP
ModelColumnsOf(entity) == IF entity = "trip" THEN TRIP_MODEL_COLUMNS ELSE PASSENGER_MODEL_COLUMNS

SampleColumns(entity) ==
    IF entity = "trip"
    THEN {"destination", "arrival_date", "max_passengers", "trip_standard_level_pricing",
          "is_child"}
    ELSE {"passport_number", "passport_expire", "trip_name"}

\* dicts {column: native value} over at most MaxFields mapped sample columns
ModelInputs(entity) ==
    UNION {{f \in [S -> UNION {NativeValues(ColumnType(ModelColumnsOf(entity), c)) : c \in S}] :
               \A c \in S : f[c] \in NativeValues(ColumnType(ModelColumnsOf(entity), c))} :
           S \in {T \in SUBSET SampleColumns(entity) : T # {} /\ Cardinality(T) <= MaxFields}}

(***************************************************************************)
(* State                                                                   *)
(***************************************************************************)
VARIABLES
    \* codec: the inputs, the process' time zone and the computed results
    wire, model_data, entity, tz, parsed, mapped, encoded, codec_pc,
    \* the local store (committed rows) and the last trips.id handed out
    contacts, trips, passengers, trip_seq,
    \* the CRM: opportunity id -> opportunity, and the number of edits made there
    remote, edits,
    \* logical time and the last operation with its outcome
    clock, lastOp,
    \* the CRM's collections read by the full synchronisation, the local reference
    \* tables, the sync_logs table and the position of perform_full_sync
    crm, aux, sync_logs, fs,
    \* the last push of two_way_sync.py with the requests it sent; the
    \* GoHighLevelAPI instance with the time and the requests it made; the
    \* field_maps table with the runs of the rebuild script; the linker scripts
    push, api, fm, lk,
    \* the web application's trip routes with the CRM calls they made; the two
    \* processes that pull the same opportunity at the same time
    app, proc

codecVars == <<wire, model_data, entity, tz, parsed, mapped, encoded, codec_pc>>
storeVars == <<contacts, trips, passengers, trip_seq>>
pullVars == <<remote, edits, clock, lastOp>>
syncVars == <<crm, aux, sync_logs, fs>>
toolVars == <<push, api, fm, lk, app, proc>>
vars == <<codecVars, storeVars, pullVars, syncVars, toolVars>>

NoParse == [raised |-> FALSE, d |-> EmptyDict]
NoMapped == [raised |-> FALSE, mapped |-> EmptyDict]
\* op: the operation; at: how far it got ("fetch", "contact", "decode", "done")
NoOp == [op |-> "none", id |-> "", raised |-> FALSE, at |-> "", repeat |-> FALSE,
         created |-> FALSE, mapped |-> EmptyDict]
Missing == [name |-> Absent, contactId |-> Absent, stageId |-> Absent,
            customFields |-> NotAList, exists |-> FALSE]

OppIds == {"opp1", "opp2"}

CodecIdle ==
    /\ wire = NotAList /\ model_data = EmptyDict /\ entity = "trip"
    /\ parsed = NoParse /\ mapped = NoMapped /\ encoded = EmptyDict
    /\ codec_pc = "off"

PullIdle ==
    /\ remote = [o \in OppIds |-> Missing] /\ edits = 0 /\ clock = 0 /\ lastOp = NoOp

StoreEmpty == contacts = {} /\ trips = {} /\ passengers = {} /\ trip_seq = 0

\* sync_contacts(limit=100), sync_trip_opportunities(limit=100),
\* sync_passenger_opportunities(limit=100)
DefaultLimit == 100

\* results = {'pipelines': 0, 'stages': 0, ...}
NoResults ==
    [pipelines |-> 0, stages |-> 0, groups |-> 0, fields |-> 0, contacts |-> 0,
     trips |-> 0, passengers |-> 0, vendors |-> 0]
NoCrm ==
    [fields |-> << >>, contacts |-> << >>, trips |-> << >>, passengers |-> << >>,
     has_total |-> TRUE]
NoAux == [pipelines |-> {}, stages |-> {}, groups |-> {}, fields |-> {}]
\* pc: the statement perform_full_sync is at; trace: the stage calls made, the
\* pages they fetched and how each ended; exc: the message of the exception that
\* left perform_full_sync; caller: "full_sync", or "direct" for a stage method called
\* on its own; limit: the limit argument of the paginated stage; started, page,
\* cursor, count, skipped: the locals of the paginated stage that is running
\* (skipped is skipped_no_contact); caught: the class of the exception the except
\* clause of a paginated stage caught last; session: the contacts added to
\* db.session that no commit has stored and no rollback has discarded yet
FsIdle ==
    [pc |-> "idle", trace |-> << >>, results |-> NoResults, exc |-> "", caught |-> "",
     caller |-> "full_sync", limit |-> DefaultLimit,
     started |-> FALSE, page |-> 1, cursor |-> 0, count |-> 0, skipped |-> 0,
     session |-> {}]

SyncIdle == crm = NoCrm /\ aux = NoAux /\ sync_logs = << >> /\ fs = FsIdle

\* no push made yet
\* op: the push; at: the branch it took ("contact", "update", "create"); row: the
\* object pushed; requests: the requests sent, in order
NoPush == [op |-> "none", at |-> "", row |-> EmptyDict, raised |-> FALSE, requests |-> << >>]
\* GoHighLevelAPI.__init__: last_request_time = 0; no request made yet
NoApi == [now |-> 0, last_request_time |-> 0, starts |-> << >>, calls |-> 0,
          response |-> [status |-> 0,
                        body |-> [text |-> "", valid |-> FALSE, is_dict |-> FALSE,
                                  d |-> [k \in {} |-> ""]]],
          outcome |-> [kind |-> "none", value |-> NoneV, message |-> "",
                       status_code |-> NoneV, response_data |-> NoneV]]
\* an empty field_maps table, the rebuild script not run yet
\* rows: the table; descriptors: the CRM's field list; runs, last: the runs of
\* main and how the last one ended; missing_mappings: what it reported; deleted:
\* the rows its delete removed; first: the table after the first completed run
NoFm == [rows |-> {}, descriptors |-> << >>, runs |-> 0, last |-> "none",
         missing_mappings |-> << >>, deleted |-> {}, first |-> {}, first_done |-> FALSE]
\* the linker not run yet; script: the linker run last; all_trips: the order it
\* read the trips in; fetched: whether it could read the trip names
NoLk == [script |-> "none", all_trips |-> << >>, fetched |-> FALSE, before |-> {}]

\* no request handled yet
\* events: the requests handled, which is also the application's time; calls: the
\* CRM requests of the last route or handler, in order; last: that route or
\* handler, the trip it was about, the row it was called with and how it ended;
\* created: trip id -> the opportunities the CRM holds for the trip as far as
\* the pushes of this application made them
NoRoute == [route |-> "none", trip |-> NoneV, row |-> EmptyDict, outcome |-> "",
            dependents |-> {}]
NoApp == [events |-> 0, calls |-> << >>, last |-> NoRoute, created |-> [i \in {} |-> 0]]

\* the two processes before they start; pc: "start", "queried" (the query found
\* no row), "done"; found: what the query returned; outcome: how the pull ended
NoProc == [p \in {} |-> ""]

ToolIdle == push = NoPush /\ api = NoApi /\ fm = NoFm /\ lk = NoLk /\ app = NoApp /\ proc = NoProc

(***************************************************************************)
(* The codec applied to bounded inputs                                     *)
(***************************************************************************)
CodecInit ==
    /\ tz \in TzOffsets
    /\ entity \in {"trip", "passenger"}
    /\ \/ /\ wire \in DecodeInputs /\ model_data = EmptyDict /\ codec_pc = "wire"
       \/ /\ wire = NotAList /\ model_data \in ModelInputs(entity) /\ codec_pc = "native"
    /\ parsed = NoParse /\ mapped = NoMapped /\ encoded = EmptyDict
    /\ StoreEmpty /\ PullIdle /\ SyncIdle /\ ToolIdle

MapOf(ent, custom_fields, tzMs) ==
    IF ent = "trip" THEN map_trip_custom_fields(custom_fields, tzMs)
    ELSE map_passenger_custom_fields(custom_fields, tzMs)

\* custom_fields_dict = parse_ghl_custom_fields(custom_fields_list)
CodecParse ==
    /\ codec_pc = "wire"
    /\ parsed' = parse_ghl_custom_fields(wire)
    /\ codec_pc' = "parsed"
    /\ UNCHANGED <<toolVars, wire, model_data, entity, tz, mapped, encoded, storeVars, pullVars, syncVars>>

\* mapped_fields = map_trip_custom_fields(custom_fields_dict) (or the passenger one)
CodecMap ==
    /\ codec_pc = "parsed" /\ ~parsed.raised
    /\ mapped' = MapOf(entity, parsed.d, tz)
    /\ codec_pc' = "mapped"
    /\ UNCHANGED <<toolVars, wire, model_data, entity, tz, parsed, encoded, storeVars, pullVars, syncVars>>

\* create_ghl_custom_fields_dict(model_data, field_map)
CodecEncode ==
    /\ codec_pc = "native"
    /\ encoded' = create_ghl_custom_fields_dict(model_data, FieldMapOf(entity))
    /\ codec_pc' = "encoded"
    /\ UNCHANGED <<toolVars, wire, model_data, entity, tz, parsed, mapped, storeVars, pullVars, syncVars>>

\* the encoded dict handed back to the decoder
CodecDecode ==
    /\ codec_pc = "encoded"
    /\ mapped' = MapOf(entity, encoded, tz)
    /\ codec_pc' = "roundtrip"
    /\ UNCHANGED <<toolVars, wire, model_data, entity, tz, parsed, encoded, storeVars, pullVars, syncVars>>

CodecNext == CodecParse \/ CodecMap \/ CodecEncode \/ CodecDecode

SpecCodec == CodecInit /\ [][CodecNext]_vars

(***************************************************************************)
(* two_way_sync.py : single-record pulls                                   *)
(***************************************************************************)
\* the CRM's field descriptors: CRM field id -> field key
CrmFieldKey ==
    [fld_1 |-> "opportunity.arrivaldate", fld_2 |-> "opportunity.destination"]

Entry(id, x) == WireEntry(StrV(id), x, Absent)

\* customFields values a CRM opportunity can carry
PullLists ==
    {NotAList,
     WireList(<< >>),
     WireList(<<Entry("opportunity.arrivaldate", StrV("2025-06-01T00:00:00Z")),
                Entry("opportunity.destination", StrV("Paris"))>>),
     WireList(<<Entry("opportunity.arrivaldate", StrV("garbage")),
                Entry("opportunity.destination", StrV("Rome"))>>),
     WireList(<<Entry("opportunity.destination", StrV("")),
                Entry("opportunity.arrivaldate", IntV(86400000))>>),
     WireList(<<Entry("fld_1", StrV("2025-06-01T00:00:00Z"))>>),
     WireList(<<Entry("opportunity.passportexpire", StrV("2030-01-31T00:00:00Z")),
                Entry("opportunity.tripname", StrV("Paris"))>>),
     WireList(<<Entry("opportunity.passportexpire", StrV("garbage")),
                Entry("opportunity.passportnumber", StrV("X123"))>>),
     WireList(<<Entry("opportunity.passportnumber", StrV("")),
                Entry("opportunity.maxpassengers", StrV("12.7"))>>)}

\* contact c1 is in the local store, contact c9 is not
RemoteContactIds == {StrV("c1"), StrV("c9"), NoneV}

RemoteRecord(c, l) ==
    [name |-> StrV("Paris Spring"), contactId |-> c, stageId |-> StrV("stage1"),
     customFields |-> l, exists |-> TRUE]

RemoteRecords ==
    {RemoteRecord(StrV("c1"), l) : l \in PullLists}
        \cup {RemoteRecord(c, WireList(<< >>)) : c \in RemoteContactIds}

\* what a CRM opportunity can be edited to: anything for the first id, one trip-like
\* and one passenger-like record for the others
RemoteRecordsOf(o) ==
    IF o = "opp1" THEN RemoteRecords
    ELSE {RemoteRecord(StrV("c1"),
                       WireList(<<Entry("opportunity.arrivaldate", StrV("2025-06-01T00:00:00Z")),
                                  Entry("opportunity.destination", StrV("Paris"))>>)),
          RemoteRecord(StrV("c1"),
                       WireList(<<Entry("opportunity.passportexpire", StrV("garbage")),
                                  Entry("opportunity.passportnumber", StrV("X123"))>>))}

\* opp_data.get(key)
OppGet(opp, key) == IF opp[key] = Absent THEN NoneV ELSE opp[key]

\* a lookup that never finds the row
TripQueryFirst_Never(rows, ghl_opportunity_id) == {}

\* Trip.query.filter_by(ghl_opportunity_id=...).first(): the matching rows, at most
\* one of them
TripQueryFirst(rows, ghl_opportunity_id) ==
    LET hits == {r \in rows : r.ghl_opportunity_id = StrV(ghl_opportunity_id)}
    IN  IF hits = {} THEN {} ELSE {CHOOSE r \in hits : TRUE}

\* Passenger.query.get(id) / Contact.query.get(id)
PassengerQueryGet(rows, id) ==
    LET hits == {r \in rows : r.id = id}
    IN  IF hits = {} THEN {} ELSE {CHOOSE r \in hits : TRUE}

\* the rows of the table after db.session.add(obj); db.session.commit()
Commit(rows, old, new) == (rows \ old) \cup {new}

\* if value: obj.<column> = value
SetIfTruthy(set, column, value) == IF Truthy(value) THEN DictSet(set, column, value) ELSE set

\* the row db.session.add(obj); db.session.commit() stores: an INSERT for a new
\* object, an UPDATE of the row found otherwise
StoredRow(model_columns, defaults, found, set, now) ==
    IF found = {} THEN InsertRow(model_columns, defaults, set, now)
    ELSE UpdateRow(CHOOSE r \in found : TRUE, set)

PullInit ==
    /\ tz \in TzOffsets
    /\ wire = NotAList /\ model_data = EmptyDict /\ entity = "trip"
    /\ parsed = NoParse /\ mapped = NoMapped /\ encoded = EmptyDict
    /\ codec_pc = "off"
    /\ contacts = {StrV("c1")} /\ trips = {} /\ passengers = {} /\ trip_seq = 0
    /\ PullIdle /\ SyncIdle /\ ToolIdle

\* the CRM side changes an opportunity
RemoteEdit(o, rec) ==
    /\ edits < MaxRemoteEdits
    /\ remote[o] # rec
    /\ remote' = [remote EXCEPT ![o] = rec]
    /\ edits' = edits + 1
    /\ lastOp' = [NoOp EXCEPT !.op = "remote_edit", !.id = o]
    /\ UNCHANGED <<toolVars, codecVars, syncVars, storeVars, clock>>

\* a pull that catches the error of the fetch and returns normally
PullFetchFails_Swallowed(kind, o) ==
    /\ clock < MaxClock
    /\ clock' = clock + 1
    /\ lastOp' = [NoOp EXCEPT !.op = kind, !.id = o, !.raised = FALSE, !.at = "fetch"]
    /\ UNCHANGED <<toolVars, codecVars, syncVars, storeVars, remote, edits>>

\* self.api.get_opportunity raises GoHighLevelAPIError: a network error, or a
\* non-2xx answer such as the 404 for an id the CRM does not know
PullFetchFails(kind, o) ==
    /\ clock < MaxClock
    /\ clock' = clock + 1
    /\ lastOp' = [NoOp EXCEPT !.op = kind, !.id = o, !.raised = TRUE, !.at = "fetch"]
    /\ UNCHANGED <<toolVars, codecVars, syncVars, storeVars, remote, edits>>

\* pull_trip_from_ghl between the query and the commit, as in PullTrip: the
\* attributes assigned to the trip, new or found, and whether the decoding raised
PulledTrip(o, found) ==
    LET opp_data == remote[o]
        new == found = {}
        custom_fields_dict == parse_ghl_custom_fields(opp_data.customFields)
        mapped_fields == map_trip_custom_fields(custom_fields_dict.d, tz)
        set0 == IF new THEN [ghl_opportunity_id |-> StrV(o), id |-> IntV(trip_seq + 1)]
                ELSE EmptyDict
        set1 == ApplyMapped(TRIP_MODEL_COLUMNS, set0, mapped_fields.mapped)
        set2 == DictSet(DictSet(set1, "name", OppGet(opp_data, "name")),
                        "updated_at", IntV(clock + 1))
    IN  [raised |-> custom_fields_dict.raised \/ mapped_fields.raised,
         set |-> set2, mapped |-> mapped_fields.mapped]

\* pull_trip_from_ghl(ghl_opportunity_id), the fetch having succeeded
PullTrip(o) ==
    /\ clock < MaxClock
    /\ remote[o].exists
    /\ LET opp_data == remote[o]
           found == TripQueryFirst(trips, o)
           new == found = {}
           custom_fields_dict == parse_ghl_custom_fields(opp_data.customFields)
           mapped_fields == map_trip_custom_fields(custom_fields_dict.d, tz)
           set0 == IF new THEN [ghl_opportunity_id |-> StrV(o), id |-> IntV(trip_seq + 1)]
                   ELSE EmptyDict
           set1 == ApplyMapped(TRIP_MODEL_COLUMNS, set0, mapped_fields.mapped)
           set2 == DictSet(DictSet(set1, "name", OppGet(opp_data, "name")),
                           "updated_at", IntV(clock + 1))
           row == StoredRow(TRIP_MODEL_COLUMNS, TRIP_DEFAULTS, found, set2, clock + 1)
           decode_raised == custom_fields_dict.raised \/ mapped_fields.raised
       IN  IF decode_raised
           THEN \* an exception of the decoding leaves the function before the commit
                /\ UNCHANGED <<trips, trip_seq>>
                /\ lastOp' = [NoOp EXCEPT !.op = "pull_trip", !.id = o, !.raised = TRUE,
                                          !.at = "decode"]
           ELSE /\ trips' = Commit(trips, found, row)
                /\ trip_seq' = IF new THEN trip_seq + 1 ELSE trip_seq
                /\ lastOp' = [op |-> "pull_trip", id |-> o, raised |-> FALSE, at |-> "done",
                              repeat |-> (lastOp.op = "pull_trip" /\ lastOp.id = o
                                             /\ ~lastOp.raised),
                              created |-> new, mapped |-> mapped_fields.mapped]
    /\ clock' = clock + 1
    /\ UNCHANGED <<toolVars, codecVars, syncVars, contacts, passengers, remote, edits>>

\* a lookup that finds every contact
ContactQueryGet_Always(local_contacts, contact_id) == TRUE

\* Contact.query.get(contact_id) finds the contact
ContactQueryGet(local_contacts, contact_id) == contact_id \in local_contacts

\* pull_passenger_from_ghl(ghl_opportunity_id) refusing the opportunity: no
\* contactId, or the contact is not in the local store
PullPassengerRefuses(o) ==
    /\ clock < MaxClock
    /\ remote[o].exists
    /\ LET contact_id == OppGet(remote[o], "contactId")
       IN  ~Truthy(contact_id) \/ ~ContactQueryGet(contacts, contact_id)
    /\ clock' = clock + 1
    /\ lastOp' = [NoOp EXCEPT !.op = "pull_passenger", !.id = o, !.raised = TRUE,
                                !.at = "contact"]
    /\ UNCHANGED <<toolVars, codecVars, syncVars, storeVars, remote, edits>>

\* pull_passenger_from_ghl between the query and the commit, as in PullPassenger
PulledPassenger(o, found) ==
    LET opp_data == remote[o]
        contact_id == OppGet(opp_data, "contactId")
        new == found = {}
        custom_fields_dict == parse_ghl_custom_fields(opp_data.customFields)
        mapped_fields == map_passenger_custom_fields(custom_fields_dict.d, tz)
        set0 == IF new THEN [id |-> StrV(o), contact_id |-> contact_id] ELSE EmptyDict
        set1 == ApplyMapped(PASSENGER_MODEL_COLUMNS, set0, mapped_fields.mapped)
        trip_name == DictGet(custom_fields_dict.d, StrV("opportunity.tripname"))
        set2 == SetIfTruthy(set1, "trip_name", trip_name)
        stage_id == OppGet(opp_data, "stageId")
        set3 == SetIfTruthy(set2, "stage_id", stage_id)
        set4 == DictSet(DictSet(set3, "updated_at", IntV(clock + 1)),
                        "last_synced_at", IntV(clock + 1))
    IN  [raised |-> custom_fields_dict.raised \/ mapped_fields.raised,
         set |-> set4, mapped |-> mapped_fields.mapped]

\* pull_passenger_from_ghl(ghl_opportunity_id), fetch and contact check passed
PullPassenger(o) ==
    /\ clock < MaxClock
    /\ remote[o].exists
    /\ LET opp_data == remote[o]
           contact_id == OppGet(opp_data, "contactId")
           found == PassengerQueryGet(passengers, StrV(o))
           new == found = {}
           custom_fields_dict == parse_ghl_custom_fields(opp_data.customFields)
           mapped_fields == map_passenger_custom_fields(custom_fields_dict.d, tz)
           set0 == IF new THEN [id |-> StrV(o), contact_id |-> contact_id] ELSE EmptyDict
           set1 == ApplyMapped(PASSENGER_MODEL_COLUMNS, set0, mapped_fields.mapped)
           trip_name == DictGet(custom_fields_dict.d, StrV("opportunity.tripname"))
           set2 == SetIfTruthy(set1, "trip_name", trip_name)
           stage_id == OppGet(opp_data, "stageId")
           set3 == SetIfTruthy(set2, "stage_id", stage_id)
           set4 == DictSet(DictSet(set3, "updated_at", IntV(clock + 1)),
                           "last_synced_at", IntV(clock + 1))
           row == StoredRow(PASSENGER_MODEL_COLUMNS, PASSENGER_DEFAULTS, found, set4, clock + 1)
           decode_raised == custom_fields_dict.raised \/ mapped_fields.raised
       IN  /\ Truthy(contact_id) /\ ContactQueryGet(contacts, contact_id)
           /\ IF decode_raised
              THEN /\ UNCHANGED passengers
                   /\ lastOp' = [NoOp EXCEPT !.op = "pull_passenger", !.id = o,
                                             !.raised = TRUE, !.at = "decode"]
              ELSE /\ passengers' = Commit(passengers, found, row)
                   /\ lastOp' = [op |-> "pull_passenger", id |-> o, raised |-> FALSE,
                                 at |-> "done",
                                 repeat |-> (lastOp.op = "pull_passenger" /\ lastOp.id = o
                                                /\ ~lastOp.raised),
                                 created |-> new, mapped |-> mapped_fields.mapped]
    /\ clock' = clock + 1
    /\ UNCHANGED <<toolVars, codecVars, syncVars, contacts, trips, trip_seq, remote, edits>>

PullNext ==
    \/ \E o \in OppIds : \E rec \in RemoteRecordsOf(o) : RemoteEdit(o, rec)
    \/ \E o \in OppIds, kind \in {"pull_trip", "pull_passenger"} : PullFetchFails(kind, o)
    \/ \E o \in OppIds : PullTrip(o)
    \/ \E o \in OppIds : PullPassengerRefuses(o)
    \/ \E o \in OppIds : PullPassenger(o)

SpecPull == PullInit /\ [][PullNext]_vars

(***************************************************************************)
(* ghl_sync.py : the full synchronisation                                  *)
(***************************************************************************)
\* records of one kind the CRM holds, at most
MaxRecords == 2

\* search_opportunities: "limit": min(limit, 500)
SearchLimitCap == 500

TRIPBOOKING_PIPELINE_ID == "IlWdPtOpcczLpgsde2KF"
PASSENGER_PIPELINE_ID == "fnsdpRtY9o83Vr4z15bE"

\* messages of the GoHighLevelAPIError raised by _make_request
ApiErrorMessages == {"Network error: timed out", "API request failed with status 500"}
\* str(e) of the IntegrityError of an INSERT that leaves custom_field_groups.model NULL
IntegrityMessage == "NOT NULL constraint failed: custom_field_groups.model"
\* str(e) of the PendingRollbackError of a commit after a failed flush
PendingRollbackMessage == "This Session's transaction has been rolled back"

\* what GET opportunities/pipelines answers
CrmPipelines ==
    << [id |-> TRIPBOOKING_PIPELINE_ID, stages |-> <<"stage1", "stage2">>],
       [id |-> PASSENGER_PIPELINE_ID, stages |-> <<"stage3">>] >>

\* the i-th contact, trip opportunity and passenger opportunity of the CRM; the
\* first trip opportunity carries no id, passenger i belongs to contact i + 1
ContactAt(i) == [id |-> StrV("c" \o NatToStr(i))]
TripOppAt(i) ==
    [id |-> IF i = 1 THEN NoneV ELSE StrV("t" \o NatToStr(i)),
     name |-> StrV("Paris Spring"), customFields |-> WireList(<< >>)]
PassengerOppAt(i) ==
    [id |-> StrV("p" \o NatToStr(i)), contactId |-> StrV("c" \o NatToStr(i + 1)),
     customFields |-> WireList(<< >>)]

\* what GET locations/<id>/customFields answers: the descriptors of the CRM's
\* fields, without a group, inside a group, or a lone descriptor that has a group
\* and no id
Descriptor(id, group_id) ==
    [id |-> id, fieldKey |-> IF id = NoneV THEN StrV("") ELSE StrV(CrmFieldKey[id.v]),
     groupId |-> group_id]
CrmFieldLists ==
    {<<Descriptor(StrV("fld_1"), NoneV), Descriptor(StrV("fld_2"), NoneV)>>,
     <<Descriptor(StrV("fld_1"), NoneV), Descriptor(StrV("fld_2"), StrV("grp_1"))>>,
     <<Descriptor(NoneV, StrV("grp_1"))>>}

CrmStates ==
    {[fields |-> f,
      contacts |-> [i \in 1..a |-> ContactAt(i)],
      trips |-> [i \in 1..b |-> TripOppAt(i)],
      passengers |-> [i \in 1..c |-> PassengerOppAt(i)],
      has_total |-> TRUE] :
        f \in CrmFieldLists, a \in 0..MaxRecords, b \in 0..MaxRecords, c \in 0..MaxRecords}

\* the methods the model classes define
ModelMethods == [Trip |-> {"__repr__"}, Passenger |-> {"__repr__"}]

Min(a, b) == IF a <= b THEN a ELSE b

\* the page POST opportunities/search answers for body {"limit": min(limit, 500),
\* "page": page}
SearchPage(opportunities, limit, page) ==
    LET l == Min(limit, SearchLimitCap)
        lo == (page - 1) * l + 1
        hi == Min(page * l, Len(opportunities))
    IN  IF lo > hi THEN << >> ELSE SubSeq(opportunities, lo, hi)

\* the page GET contacts/ answers after the contact at position cursor
ContactsPage(crm_contacts, limit, cursor) ==
    LET hi == Min(cursor + limit, Len(crm_contacts))
    IN  IF cursor + 1 > hi THEN << >> ELSE SubSeq(crm_contacts, cursor + 1, hi)

\* the statement executed after the given stage has returned, reading the
\* stages in the order passengers, trips, contacts
NextStage_PassengersFirst(stage) ==
    CASE stage = "pipelines" -> "custom_fields"
      [] stage = "custom_fields" -> "passengers"
      [] stage = "passengers" -> "trips"
      [] stage = "trips" -> "vendors"
      [] stage = "vendors" -> "contacts"
      [] stage = "contacts" -> "finish"

\* the statement perform_full_sync executes after the given stage has returned
NextStage(stage) ==
    CASE stage = "pipelines" -> "custom_fields"
      [] stage = "custom_fields" -> "contacts"
      [] stage = "contacts" -> "trips"
      [] stage = "trips" -> "vendors"
      [] stage = "vendors" -> "passengers"
      [] stage = "passengers" -> "finish"

\* the trace once the stage has been entered
Entered(f, stage) == IF f.started THEN f.trace ELSE Append(f.trace, <<"start", stage>>)

\* the trace once the stage has asked the CRM for the page
Fetched(f, stage, page) == Append(Entered(f, stage), <<"fetch", stage, page>>)

\* a page loop that commits nothing
Committed_Never(f, stage, page) == f.trace

\* the trace once db.session.commit() has stored the page
Committed(f, stage, page) == Append(f.trace, <<"commit", stage, page>>)

\* the stage returns n to perform_full_sync, which stores it under results[key];
\* caught tells whether the stage's loop was left through its except clause
StageReturns(f, stage, key, n, caught) ==
    [f EXCEPT !.pc = IF f.caller = "direct" THEN "returned" ELSE NextStage(stage),
              !.trace = (IF caught THEN Append(f.trace, <<"caught", stage>>)
                         ELSE f.trace) \o << <<"end", stage>> >>,
              !.results = [@ EXCEPT ![key] = n],
              !.started = FALSE, !.page = 1, !.cursor = 0, !.count = 0]

\* except Exception as e: sync_log.status = 'failed'; sync_log.errors = [str(e)]
FailLog(log, msg) == [log EXCEPT !.status = "failed", !.errors = <<msg>>]

Sum(results) ==
    results.pipelines + results.stages + results.groups + results.fields
        + results.contacts + results.trips + results.passengers + results.vendors

FullSyncInit ==
    /\ tz = 0
    /\ CodecIdle /\ StoreEmpty /\ PullIdle
    /\ crm \in CrmStates
    /\ aux = NoAux /\ sync_logs = << >> /\ fs = FsIdle
    /\ ToolIdle

\* perform_full_sync up to the try: the log entry is added and committed
FullSyncBegin ==
    /\ fs.pc = "idle"
    /\ sync_logs' = Append(sync_logs, [sync_type |-> "full", status |-> "in_progress",
                                       records_synced |-> 0, errors |-> << >>])
    /\ fs' = [fs EXCEPT !.pc = "pipelines"]
    /\ UNCHANGED <<toolVars, codecVars, storeVars, pullVars, crm, aux>>

\* a stage raises into perform_full_sync: the except clause marks the log, commits
\* and re-raises
StageRaises(stage, msg) ==
    /\ sync_logs' = [sync_logs EXCEPT ![Len(sync_logs)] = FailLog(@, msg)]
    /\ fs' = [fs EXCEPT !.pc = "raised", !.exc = msg,
                        !.trace = Append(Entered(fs, stage), <<"raise", stage>>)]

\* pipeline_result = self.sync_pipelines(): the fetch raises, or every pipeline and
\* stage is upserted and committed
SyncPipelines ==
    /\ fs.pc = "pipelines"
    /\ \/ /\ \E msg \in ApiErrorMessages : StageRaises("pipelines", msg)
          /\ UNCHANGED aux
       \/ LET pipelines_data == CrmPipelines
              ids == {pipelines_data[i].id : i \in DOMAIN pipelines_data}
              stage_ids == UNION {Range(pipelines_data[i].stages) : i \in DOMAIN pipelines_data}
              pipeline_count == Len(pipelines_data)
              stage_count == Cardinality(stage_ids)
          IN  /\ aux' = [aux EXCEPT !.pipelines = @ \cup ids, !.stages = @ \cup stage_ids]
              /\ fs' = [StageReturns([fs EXCEPT !.trace = Entered(fs, "pipelines")], "pipelines", "pipelines", pipeline_count, FALSE)
                            EXCEPT !.results.stages = stage_count]
              /\ UNCHANGED sync_logs
    /\ UNCHANGED <<toolVars, codecVars, storeVars, pullVars, crm>>

\* the handler of perform_full_sync entered while the session's transaction is
\* inactive after a failed flush: sync_log.status = 'failed' is assigned in memory,
\* db.session.commit() raises PendingRollbackError and the stored log is not written
HandlerCommitRaises(stage) ==
    /\ fs' = [fs EXCEPT !.pc = "raised", !.exc = PendingRollbackMessage,
                        !.trace = Append(Entered(fs, stage), <<"raise", stage>>)]
    /\ UNCHANGED sync_logs

\* field_result = self.sync_custom_fields(). The fetch raises; or a group that is
\* not stored yet is created without its NOT NULL column model, and the INSERT
\* fails in the autoflush of the next CustomField query, or in the commit if no
\* descriptor with an id follows (the failed commit leaves the session usable or
\* inactive, depending on the library); or every descriptor is upserted and committed
SyncCustomFields ==
    /\ fs.pc = "custom_fields"
    /\ LET fields_data == crm.fields
           is_new_group(i) == /\ Truthy(fields_data[i].groupId)
                              /\ fields_data[i].groupId \notin aux.groups
           new_groups == {i \in DOMAIN fields_data : is_new_group(i)}
           autoflush_fails == \E i \in new_groups : \E j \in DOMAIN fields_data :
                                  j >= i /\ Truthy(fields_data[j].id)
           with_id == {i \in DOMAIN fields_data : Truthy(fields_data[i].id)}
           group_count == Cardinality({fields_data[i].groupId : i \in
                              {j \in DOMAIN fields_data : Truthy(fields_data[j].groupId)}})
           field_count == Cardinality(with_id)
       IN  \/ /\ \E msg \in ApiErrorMessages : StageRaises("custom_fields", msg)
              /\ UNCHANGED aux
           \/ /\ new_groups # {} /\ autoflush_fails
              /\ HandlerCommitRaises("custom_fields")
              /\ UNCHANGED aux
           \/ /\ new_groups # {} /\ ~autoflush_fails
              /\ \/ StageRaises("custom_fields", IntegrityMessage)
                 \/ HandlerCommitRaises("custom_fields")
              /\ UNCHANGED aux
           \/ /\ new_groups = {}
              /\ aux' = [aux EXCEPT !.fields = @ \cup
                            {[ghl_field_id |-> fields_data[i].id,
                              field_key |-> fields_data[i].fieldKey] : i \in with_id}]
              /\ fs' = [StageReturns([fs EXCEPT !.trace = Entered(fs, "custom_fields")], "custom_fields", "fields", field_count, FALSE)
                            EXCEPT !.results.groups = group_count]
              /\ UNCHANGED sync_logs
    /\ UNCHANGED <<toolVars, codecVars, storeVars, pullVars, crm>>

\* except Exception as e: print(...); break -- the session after the except
\* clause of a page loop: what was added stays in it
Abandoned(session, added) == session \cup added

\* one pass of the while loop of sync_contacts: the fetch raises and the except
\* clause breaks; or an entry of the page that is no dict raises AttributeError
\* after the entries before it were added, and the except clause breaks; or the
\* page is upserted and committed
SyncContactsPage ==
    /\ fs.pc = "contacts"
    /\ \E fetched \in BOOLEAN :
          LET limit == fs.limit
              contacts_data == IF fetched THEN ContactsPage(crm.contacts, limit, fs.cursor)
                               ELSE << >>
              no_dict == {i \in DOMAIN contacts_data : contacts_data[i] = NoneV}
              stop == IF no_dict = {} THEN Len(contacts_data) + 1
                      ELSE CHOOSE i \in no_dict : \A j \in no_dict : i <= j
              with_id == {i \in 1..(stop - 1) : Truthy(contacts_data[i].id)}
              added == {contacts_data[i].id : i \in with_id}
              caught == ~fetched \/ no_dict # {}
              f0 == [fs EXCEPT !.trace = Fetched(fs, "contacts", fs.cursor),
                               !.caught = IF ~fetched THEN "GoHighLevelAPIError"
                                          ELSE IF no_dict # {} THEN "AttributeError" ELSE @]
              f1 == IF caught \/ contacts_data = << >>
                    THEN [f0 EXCEPT !.session = Abandoned(@, added)]
                    ELSE [f0 EXCEPT !.trace = Committed(f0, "contacts", fs.cursor),
                                    !.session = {}]
              contact_count == fs.count + Cardinality(with_id)
              total_contacts == Len(crm.contacts)
              break == \/ caught
                       \/ contacts_data = << >>
                       \/ contact_count >= total_contacts
          IN  /\ contacts' = IF caught \/ contacts_data = << >> THEN contacts
                             ELSE contacts \cup fs.session \cup added
              /\ fs' = IF break
                       THEN StageReturns(f1, "contacts", "contacts", contact_count, caught)
                       ELSE [f1 EXCEPT !.started = TRUE,
                                       !.cursor = @ + Len(contacts_data),
                                       !.count = contact_count]
    /\ UNCHANGED <<toolVars, codecVars, pullVars, trips, passengers, trip_seq, crm, aux, sync_logs>>

\* response.get('total', 0)
ResponseTotal(opportunities) == IF crm.has_total THEN Len(opportunities) ELSE 0

\* for opp_data in opportunities_data of sync_trip_opportunities: the number of
\* trips added, and whether the loop was left by an exception. Trip defines
\* neither update_from_ghl nor from_ghl_opportunity, so the first opportunity
\* with an id raises AttributeError
ProcessTrips(opportunities_data, rows, i) ==
    LET stored(k) == Truthy(OppGet(opportunities_data[k], "id"))
        method(k) == IF TripQueryFirst(rows, OppGet(opportunities_data[k], "id").v) # {}
                     THEN "update_from_ghl" ELSE "from_ghl_opportunity"
        raising == {k \in i..Len(opportunities_data) :
                       stored(k) /\ method(k) \notin ModelMethods.Trip}
        stop == IF raising = {} THEN Len(opportunities_data) + 1
                ELSE CHOOSE k \in raising : \A j \in raising : k <= j
    IN  [raised |-> raising # {},
         count |-> Cardinality({k \in i..(stop - 1) : stored(k)})]

\* one pass of the while loop of sync_trip_opportunities
SyncTripsPage ==
    /\ fs.pc = "trips"
    /\ \E fetched \in BOOLEAN :
          LET limit == fs.limit
              opportunities_data == IF fetched THEN SearchPage(crm.trips, limit, fs.page)
                                    ELSE << >>
              total == ResponseTotal(crm.trips)
              done == ProcessTrips(opportunities_data, trips, 1)
              trip_count == fs.count + done.count
              caught == ~fetched \/ done.raised
              f1 == [fs EXCEPT !.trace = Fetched(fs, "trips", fs.page),
                               !.caught = IF ~fetched THEN "GoHighLevelAPIError"
                                          ELSE IF done.raised THEN "AttributeError" ELSE @]
              break == \/ caught
                       \/ opportunities_data = << >>
                       \/ trip_count >= total
                       \/ Len(opportunities_data) < limit
              \* db.session.commit() when the page held something and nothing raised
              commit == ~caught /\ opportunities_data # << >>
              f2 == IF commit
                    THEN [f1 EXCEPT !.trace = Committed(f1, "trips", fs.page), !.session = {}]
                    ELSE f1
          IN  /\ fs' = IF break
                       THEN StageReturns(f2, "trips", "trips", trip_count, caught)
                       ELSE [f2 EXCEPT !.started = TRUE, !.page = @ + 1, !.count = trip_count]
              \* a page that does not raise holds only opportunities without an id
              /\ contacts' = IF commit THEN contacts \cup fs.session ELSE contacts
    /\ UNCHANGED <<toolVars, codecVars, trips, passengers, trip_seq, pullVars, crm, aux,
                   sync_logs>>

\* the vendor import inside its own try: get_custom_field_options is not a method
\* of GoHighLevelAPI, the call raises and the except clause sets results['vendors'] = 0
SyncVendors ==
    /\ fs.pc = "vendors"
    /\ fs' = StageReturns([fs EXCEPT !.trace = Entered(fs, "vendors")],
                          "vendors", "vendors", 0, TRUE)
    /\ UNCHANGED <<toolVars, codecVars, storeVars, pullVars, crm, aux, sync_logs>>

\* for opp_data in opportunities_data of sync_passenger_opportunities: the number
\* of passengers added, skipped_no_contact, and whether the loop was left by an
\* exception; Passenger defines neither update_from_ghl nor from_ghl_opportunity
ProcessPassengers(opportunities_data, local_contacts, rows, i) ==
    LET opp_id(k) == OppGet(opportunities_data[k], "id")
        contact_id(k) == OppGet(opportunities_data[k], "contactId")
        complete(k) == Truthy(opp_id(k)) /\ Truthy(contact_id(k))
        known(k) == ContactQueryGet(local_contacts, contact_id(k))
        method(k) == IF PassengerQueryGet(rows, opp_id(k)) # {}
                     THEN "update_from_ghl" ELSE "from_ghl_opportunity"
        raising == {k \in i..Len(opportunities_data) :
                       complete(k) /\ known(k) /\ method(k) \notin ModelMethods.Passenger}
        stop == IF raising = {} THEN Len(opportunities_data) + 1
                ELSE CHOOSE k \in raising : \A j \in raising : k <= j
    IN  [raised |-> raising # {},
         count |-> Cardinality({k \in i..(stop - 1) : complete(k) /\ known(k)}),
         skipped |-> Cardinality({k \in i..(stop - 1) : complete(k) /\ ~known(k)})]

\* one pass of the while loop of sync_passenger_opportunities
SyncPassengersPage ==
    /\ fs.pc = "passengers"
    /\ \E fetched \in BOOLEAN :
          LET limit == fs.limit
              opportunities_data == IF fetched THEN SearchPage(crm.passengers, limit, fs.page)
                                    ELSE << >>
              done == ProcessPassengers(opportunities_data, contacts, passengers, 1)
              passenger_count == fs.count + done.count
              caught == ~fetched \/ done.raised
              f1 == [fs EXCEPT !.trace = Fetched(fs, "passengers", fs.page),
                               !.caught = IF ~fetched THEN "GoHighLevelAPIError"
                                          ELSE IF done.raised THEN "AttributeError" ELSE @]
              break == \/ caught
                       \/ opportunities_data = << >>
                       \/ Len(opportunities_data) < limit
              commit == ~caught /\ opportunities_data # << >>
              f2 == IF commit
                    THEN [f1 EXCEPT !.trace = Committed(f1, "passengers", fs.page),
                                    !.session = {}]
                    ELSE f1
          IN  /\ fs' = IF break
                       THEN [StageReturns(f2, "passengers", "passengers", passenger_count,
                                          caught)
                                 EXCEPT !.skipped = @ + done.skipped]
                       ELSE [f2 EXCEPT !.started = TRUE, !.page = @ + 1,
                                       !.count = passenger_count, !.skipped = @ + done.skipped]
              /\ contacts' = IF commit THEN contacts \cup fs.session ELSE contacts
    /\ UNCHANGED <<toolVars, codecVars, trips, passengers, trip_seq, pullVars, crm, aux,
                   sync_logs>>

\* sync_log.status = 'success'; records_synced = sum(results.values()); commit
FullSyncFinish ==
    /\ fs.pc = "finish"
    /\ sync_logs' = [sync_logs EXCEPT ![Len(sync_logs)] =
                        [@ EXCEPT !.status = "success", !.records_synced = Sum(fs.results)]]
    /\ contacts' = contacts \cup fs.session
    /\ fs' = [fs EXCEPT !.pc = "returned", !.session = {}]
    /\ UNCHANGED <<toolVars, codecVars, trips, passengers, trip_seq, pullVars, crm, aux>>

FullSyncNext ==
    \/ FullSyncBegin
    \/ SyncPipelines
    \/ SyncCustomFields
    \/ SyncContactsPage
    \/ SyncTripsPage
    \/ SyncVendors
    \/ SyncPassengersPage
    \/ FullSyncFinish

SpecFullSync == FullSyncInit /\ [][FullSyncNext]_vars

(***************************************************************************)
(* ghl_sync.py : the paginated stages called on their own, next to the     *)
(* single pulls of two_way_sync.py                                         *)
(***************************************************************************)
\* the largest limit argument a stage is called with
MaxLimit == 2

\* the local contacts: c1, and any of the contacts the CRM's passenger
\* opportunities belong to
BulkContactSets ==
    {{StrV("c1")} \cup S : S \in SUBSET {PassengerOppAt(i).contactId : i \in 1..MaxRecords}}

\* the opportunities behind the ids the single pull is asked for: the contact of
\* the first is local, is unknown locally, or is missing
BulkRemotes ==
    {[o \in OppIds |->
        IF o = "opp1" THEN RemoteRecord(c, WireList(<< >>))
        ELSE RemoteRecord(StrV("c1"),
                          WireList(<<Entry("opportunity.passportexpire", StrV("2030-01-31T00:00:00Z")),
                                     Entry("opportunity.tripname", StrV("Paris"))>>))] :
        c \in RemoteContactIds}

\* the CRM's opportunity lists, n trips and n passengers; the search answer
\* carries 'total' or not
BulkCrmStates ==
    {[NoCrm EXCEPT !.trips = [i \in 1..n |-> TripOppAt(i)],
                   !.passengers = [i \in 1..n |-> PassengerOppAt(i)],
                   !.has_total = t] :
        n \in 0..MaxRecords, t \in BOOLEAN}

BulkInit ==
    /\ tz = 0
    /\ CodecIdle
    /\ contacts \in BulkContactSets /\ trips = {} /\ passengers = {} /\ trip_seq = 0
    /\ remote \in BulkRemotes /\ edits = 0 /\ clock = 0 /\ lastOp = NoOp
    /\ crm \in BulkCrmStates
    /\ aux = NoAux /\ sync_logs = << >> /\ fs = [FsIdle EXCEPT !.caller = "direct"]
    /\ ToolIdle

\* sync_trip_opportunities(limit) or sync_passenger_opportunities(limit) is
\* called, once in a behaviour: page = 1, the counters are 0
BulkCall(stage, limit) ==
    /\ fs.pc = "idle"
    /\ fs' = [fs EXCEPT !.pc = stage, !.limit = limit]
    /\ UNCHANGED <<toolVars, codecVars, storeVars, pullVars, crm, aux, sync_logs>>

BulkNext ==
    \/ \E stage \in {"trips", "passengers"}, limit \in 1..MaxLimit : BulkCall(stage, limit)
    \/ SyncTripsPage
    \/ SyncPassengersPage
    \/ \E o \in OppIds : PullFetchFails("pull_passenger", o)
    \/ \E o \in OppIds : PullPassengerRefuses(o)
    \/ \E o \in OppIds : PullPassenger(o)

SpecBulk == BulkInit /\ [][BulkNext]_vars

(***************************************************************************)
(* two_way_sync.py : push_trip_to_ghl and push_passenger_to_ghl            *)
(***************************************************************************)
\* getattr(obj, column_name, None)
GetAttr(model_columns, row, column_name) ==
    IF HasAttr(model_columns, column_name) THEN row[column_name] ELSE NoneV

\* the pairs of the mapping that reverse_map = {v: k for k, v in MAP.items()}
\* keeps and whose column holds a value: for a column named twice the later
\* field key wins
PushedPairs(field_map, model_columns, row) ==
    SelectSeq(field_map,
              LAMBDA p : /\ GetAttr(model_columns, row, p[2]) # NoneV
                         /\ p = field_map[CHOOSE i \in DOMAIN field_map :
                                    /\ field_map[i][2] = p[2]
                                    /\ \A j \in DOMAIN field_map :
                                          field_map[j][2] = p[2] => j <= i])

\* custom_fields_data.items(): the <<field key, value>> pairs in insertion order;
\* a date goes as its isoformat, a boolean as 'true' / 'false'
CustomFieldsData(field_map, model_columns, row) ==
    LET pairs == PushedPairs(field_map, model_columns, row)
    IN  [i \in DOMAIN pairs |->
            <<pairs[i][1], EncodeValue(GetAttr(model_columns, row, pairs[i][2]))>>]

\* if passenger.trip_name: custom_fields_data['opportunity.tripname'] = trip_name
WithTripName(items, row) ==
    IF ~Truthy(row.trip_name) THEN items
    ELSE IF \E i \in DOMAIN items : items[i][1] = "opportunity.tripname"
         THEN [i \in DOMAIN items |->
                  IF items[i][1] = "opportunity.tripname"
                  THEN <<"opportunity.tripname", row.trip_name>> ELSE items[i]]
         ELSE Append(items, <<"opportunity.tripname", row.trip_name>>)

\* one request sent to the CRM and whether it was answered with success
Request(req, id, key, value, ok) ==
    [req |-> req, id |-> id, key |-> key, value |-> value, ok |-> ok]

\* a loop that gives up at the first upsert that fails
RECURSIVE UpsertLoop_StopAtFailure(_, _, _, _)
UpsertLoop_StopAtFailure(id, items, failing, i) ==
    IF i > Len(items) THEN << >>
    ELSE IF items[i][1] \in failing
         THEN <<Request("upsert", id, items[i][1], items[i][2], FALSE)>>
         ELSE <<Request("upsert", id, items[i][1], items[i][2], TRUE)>>
                 \o UpsertLoop_StopAtFailure(id, items, failing, i + 1)

\* for field_key, value in custom_fields_data.items(): the upsert of each item
\* inside its own try; failing is the set of field keys whose upsert raises
RECURSIVE UpsertLoop(_, _, _, _)
UpsertLoop(id, items, failing, i) ==
    IF i > Len(items) THEN << >>
    ELSE <<Request("upsert", id, items[i][1], items[i][2], items[i][1] \notin failing)>>
            \o UpsertLoop(id, items, failing, i + 1)

\* the update branch: update_opportunity, then the loop; an exception of
\* update_opportunity is printed and re-raised
PushUpdate(op, id, items, row) ==
    \E core_ok \in BOOLEAN, failing \in SUBSET {items[i][1] : i \in DOMAIN items} :
        /\ ~core_ok => failing = {}
        /\ push' = [op |-> op, at |-> "update", row |-> row, raised |-> ~core_ok,
                    requests |-> <<Request("update", id, "", NoneV, core_ok)>>
                                    \o (IF core_ok THEN UpsertLoop(id, items, failing, 1)
                                        ELSE << >>)]

\* the id the CRM gives the n-th opportunity it is asked to create
CreatedOppId(n) == StrV("opp_new" \o NatToStr(n))

\* what get_pipelines can answer: the pipelines of the CRM, none, or pipelines
\* without stages
PipelineAnswers ==
    {CrmPipelines, << >>,
     <<[id |-> TRIPBOOKING_PIPELINE_ID, stages |-> << >>],
       [id |-> PASSENGER_PIPELINE_ID, stages |-> << >>]>>}

\* the pipelines of the answer that carry the id; the loop breaks at the first
PipelineHits(pipelines, pipeline_id) ==
    {i \in DOMAIN pipelines : pipelines[i].id = pipeline_id}

\* the last stage of the pipeline instead of stages[0]
FirstStage_Last(pipelines, pipeline_id) ==
    LET stages == pipelines[CHOOSE i \in PipelineHits(pipelines, pipeline_id) : TRUE].stages
    IN  StrV(stages[Len(stages)])

\* opp_data['stageId'] = stages[0]['id']
FirstStage(pipelines, pipeline_id) ==
    StrV(pipelines[CHOOSE i \in PipelineHits(pipelines, pipeline_id) : TRUE].stages[1])

\* the create branch up to the commit: get_pipelines, the first stage of the
\* pipeline, create_opportunity with the custom fields inside the body; created
\* tells whether the opportunity exists afterwards
PushCreate(op, pipeline_id, row, created) ==
    \E pipelines_ok \in BOOLEAN, pipelines \in PipelineAnswers, create_ok \in BOOLEAN :
        LET hit == PipelineHits(pipelines, pipeline_id)
            has_stage == hit # {} /\ pipelines[CHOOSE i \in hit : TRUE].stages # << >>
            got == Request("get_pipelines", NoneV, "", NoneV, pipelines_ok)
        IN  /\ created = (pipelines_ok /\ has_stage /\ create_ok)
            /\ ~pipelines_ok => (pipelines = << >> /\ ~create_ok)
            /\ (pipelines_ok /\ ~has_stage) => ~create_ok
            /\ push' = [op |-> op, at |-> "create", row |-> row, raised |-> ~created,
                        requests |-> IF pipelines_ok /\ has_stage
                                     THEN <<got, Request("create", NoneV, pipeline_id,
                                                         FirstStage(pipelines, pipeline_id),
                                                         create_ok)>>
                                     ELSE <<got>>]

\* push_trip_to_ghl(trip, force_create)
PushTrip(row, force_create) ==
    /\ row \in trips
    /\ LET items == CustomFieldsData(TRIP_FIELD_MAP, TRIP_MODEL_COLUMNS, row)
       IN  IF Truthy(row.ghl_opportunity_id) /\ ~force_create
           THEN /\ PushUpdate("push_trip", row.ghl_opportunity_id, items, row)
                /\ UNCHANGED <<trips, clock>>
           ELSE /\ clock < MaxClock
                /\ \E created \in BOOLEAN :
                      /\ PushCreate("push_trip", TRIPBOOKING_PIPELINE_ID, row, created)
                      /\ trips' = IF created
                                  THEN Commit(trips, {row},
                                              UpdateRow(row, [ghl_opportunity_id |->
                                                                CreatedOppId(clock + 1),
                                                              updated_at |-> IntV(clock + 1)]))
                                  ELSE trips
                /\ clock' = clock + 1
    /\ UNCHANGED <<codecVars, syncVars, contacts, passengers, trip_seq, remote, edits, lastOp,
                   api, fm, lk, app, proc>>

\* push_passenger_to_ghl(passenger, force_create)
PushPassenger(row, force_create) ==
    /\ row \in passengers
    /\ LET items == WithTripName(CustomFieldsData(PASSENGER_FIELD_MAP, PASSENGER_MODEL_COLUMNS,
                                                  row), row)
       IN  IF ~Truthy(row.contact_id) \/ row.contact_id \notin contacts
           THEN \* raise Exception("Passenger must have a contact_id") / "Contact ... not found"
                /\ push' = [op |-> "push_passenger", at |-> "contact", row |-> row,
                            raised |-> TRUE, requests |-> << >>]
                /\ UNCHANGED <<passengers, clock>>
           ELSE IF Truthy(row.id) /\ ~force_create
           THEN /\ PushUpdate("push_passenger", row.id, items, row)
                /\ UNCHANGED <<passengers, clock>>
           ELSE /\ clock < MaxClock
                /\ \E created \in BOOLEAN :
                      /\ PushCreate("push_passenger", PASSENGER_PIPELINE_ID, row, created)
                      /\ passengers' = IF created
                                       THEN Commit(passengers, {row},
                                                   UpdateRow(row, [id |-> CreatedOppId(clock + 1),
                                                                   updated_at |-> IntV(clock + 1)]))
                                       ELSE passengers
                /\ clock' = clock + 1
    /\ UNCHANGED <<codecVars, syncVars, contacts, trips, trip_seq, remote, edits, lastOp,
                   api, fm, lk, app, proc>>

\* the trips and passengers of the local store that are pushed
PushTripRows ==
    {InsertRow(TRIP_MODEL_COLUMNS, TRIP_DEFAULTS, set, 0) :
        set \in {[id |-> IntV(1), ghl_opportunity_id |-> StrV("opp1"), name |-> StrV("Paris Spring"),
                  destination |-> StrV("Paris"), arrival_date |-> DateV(2025, 6, 1)],
                 [id |-> IntV(1), ghl_opportunity_id |-> StrV("opp1"), is_child |-> BoolV(FALSE),
                  max_passengers |-> NoneV, passenger_count |-> NoneV],
                 [id |-> IntV(1), name |-> StrV("Rome")]}}
PushPassengerRows ==
    {InsertRow(PASSENGER_MODEL_COLUMNS, PASSENGER_DEFAULTS, set, 0) :
        set \in {[id |-> StrV("opp2"), contact_id |-> StrV("c1"), trip_name |-> StrV("Paris"),
                  passport_number |-> StrV("X123"), passport_expire |-> DateV(2030, 1, 31)],
                 [id |-> StrV("opp2"), contact_id |-> StrV("c1")],
                 [id |-> StrV("opp2"), contact_id |-> StrV("c9"), trip_name |-> StrV("")]}}

PushInit ==
    /\ tz = 0
    /\ CodecIdle /\ PullIdle /\ SyncIdle /\ ToolIdle
    /\ contacts = {StrV("c1")}
    /\ \E t \in PushTripRows, p \in PushPassengerRows : trips = {t} /\ passengers = {p}
    /\ trip_seq = 1

PushNext ==
    \/ \E row \in trips, force_create \in BOOLEAN : PushTrip(row, force_create)
    \/ \E row \in passengers, force_create \in BOOLEAN : PushPassenger(row, force_create)

SpecPush == PushInit /\ [][PushNext]_vars

(***************************************************************************)
(* ghl_api.py : GoHighLevelAPI._rate_limit and _make_request. Times are    *)
(* milliseconds.                                                           *)
(***************************************************************************)
\* self.min_request_interval = 0.1
min_request_interval == 100

\* calls made through the instance, at most
MaxCalls == 3

\* what the caller does between two calls, how much longer than asked a sleep
\* lasts, and how long the server takes to answer
IdleTimes == {0, 40, 150}
SleepOvershoots == {0, 10}
RequestDurations == {0, 120}

\* a response body: its text, whether it is JSON, whether that JSON is an object,
\* and the object's members
Body(text, valid, is_dict, d) == [text |-> text, valid |-> valid, is_dict |-> is_dict, d |-> d]
NoMembers == [k \in {} |-> ""]
Bodies ==
    {Body("", FALSE, FALSE, NoMembers),
     Body("{\"message\": \"Not found\"}", TRUE, TRUE, [message |-> "Not found"]),
     Body("{\"error\": \"Unauthorized\"}", TRUE, TRUE, [error |-> "Unauthorized"]),
     Body("{\"id\": \"opp1\"}", TRUE, TRUE, [id |-> "opp1"]),
     Body("null", TRUE, FALSE, NoMembers),
     Body("<html>Bad Gateway</html>", FALSE, FALSE, NoMembers)}

Statuses == {200, 204, 203, 404, 500}

\* what a call of _make_request ends with: a returned dict or a raised exception
Returned(value) ==
    [kind |-> "return", value |-> value, message |-> "", status_code |-> NoneV,
     response_data |-> NoneV]
RaisedError(kind, message, status_code, response_data) ==
    [kind |-> kind, value |-> NoneV, message |-> message, status_code |-> status_code,
     response_data |-> response_data]

\* response.json() of a body that is JSON
JsonOf(body) == IF body.is_dict THEN [t |-> "dict", v |-> body.d] ELSE NoneV

\* a gate that never sleeps
SleepTime_None(time_since_last, overshoot) == 0

\* if time_since_last < self.min_request_interval: time.sleep(the difference);
\* the sleep lasts at least as long as asked
SleepTime(time_since_last, overshoot) ==
    IF time_since_last < min_request_interval
    THEN (min_request_interval - time_since_last) + overshoot
    ELSE 0

\* the error message _make_request builds for a status outside 200/201/202/204
ErrorMessage(status, body) ==
    IF body.valid /\ body.is_dict /\ "message" \in DOMAIN body.d THEN body.d.message
    ELSE IF body.valid /\ body.is_dict /\ "error" \in DOMAIN body.d THEN body.d.error
    ELSE IF body.valid /\ body.is_dict
         THEN "API request failed with status " \o NatToStr(status)
    ELSE "API request failed with status " \o NatToStr(status) \o ": " \o body.text

\* the ways _make_request can end for a response; response.json() of a text that
\* is not JSON raises inside the raise statement: an exception the installed
\* requests derives from RequestException, which the except clause turns into a
\* "Network error", or a plain ValueError that leaves the function
Outcomes(status, body) ==
    IF status \in {200, 201, 202, 204}
    THEN {IF body.text = "" THEN Returned([t |-> "dict", v |-> [success |-> "True"]])
          ELSE IF body.valid THEN Returned(JsonOf(body))
          ELSE Returned([t |-> "dict", v |-> [success |-> "True", content |-> body.text]])}
    ELSE IF body.text # "" /\ ~body.valid
         THEN {RaisedError("GoHighLevelAPIError", "Network error: Expecting value",
                           NoneV, NoneV),
               RaisedError("ValueError", "Expecting value", NoneV, NoneV)}
    ELSE {RaisedError("GoHighLevelAPIError", ErrorMessage(status, body), IntV(status),
                      IF body.text = "" THEN NoneV ELSE JsonOf(body))}

ApiInit ==
    /\ tz = 0
    /\ CodecIdle /\ StoreEmpty /\ PullIdle /\ SyncIdle
    /\ push = NoPush /\ fm = NoFm /\ lk = NoLk /\ app = NoApp /\ proc = NoProc
    /\ api \in {[NoApi EXCEPT !.now = t] : t \in {1000, 1050}}

\* one call of _make_request: the gate, then the request; network_error tells
\* whether session.request raised a RequestException
MakeRequest ==
    /\ api.calls < MaxCalls
    /\ \E idle \in IdleTimes, overshoot \in SleepOvershoots, duration \in RequestDurations,
          network_error \in BOOLEAN, status \in Statuses, body \in Bodies :
          LET current_time == api.now + idle
              time_since_last == current_time - api.last_request_time
              started == current_time + SleepTime(time_since_last, overshoot)
              response == IF network_error THEN NoApi.response
                          ELSE [status |-> status, body |-> body]
          IN  /\ network_error => (status = 200 /\ body.text = "")
              /\ \E outcome \in (IF network_error
                                 THEN {RaisedError("GoHighLevelAPIError",
                                                   "Network error: timed out", NoneV, NoneV)}
                                 ELSE Outcomes(status, body)) :
                    api' = [now |-> started + duration,
                            last_request_time |-> started,
                            starts |-> Append(api.starts, [call |-> api.calls + 1,
                                                           at |-> started]),
                            calls |-> api.calls + 1,
                            response |-> response,
                            outcome |-> outcome]
    /\ UNCHANGED <<codecVars, storeVars, pullVars, syncVars, push, fm, lk, app, proc>>

ApiNext == MakeRequest

SpecApi == ApiInit /\ [][ApiNext]_vars

(***************************************************************************)
(* .scripts/build_field_maps.py : the rebuild of the field_maps table, and *)
(* the row link_passengers_comprehensive.py adds to it                     *)
(***************************************************************************)
\* GHL field key -> (table, column, data type), as <<field key, table, column,
\* data type>> in source order
FIELD_KEY_TO_TABLE ==
    << <<"opportunity.birth_country", "trips", "birth_country", "string">>,
       <<"opportunity.passenger_id", "trips", "passenger_id", "string">>,
       <<"opportunity.passenger_name", "trips", "passenger_first_name", "string">>,
       <<"opportunity.passenger_number", "trips", "passenger_number", "integer">>,
       <<"opportunity.trip_id", "trips", "trip_id_custom", "integer">>,
       <<"opportunity.trip_name", "trips", "trip_name", "string">>,
       <<"opportunity.nights", "trips", "nights_total", "integer">>,
       <<"opportunity.arrival_date", "trips", "arrival_date", "date">>,
       <<"opportunity.return_date", "trips", "return_date", "date">>,
       <<"opportunity.max_passengers", "trips", "max_passengers", "integer">>,
       <<"opportunity.travel_category", "trips", "travel_category", "string">>,
       <<"opportunity.trip_standard_level_pricing", "trips", "trip_standard_level_pricing", "decimal">>,
       <<"opportunity.passenger_count", "trips", "passenger_count", "integer">>,
       <<"opportunity.lodging", "trips", "lodging", "string">>,
       <<"opportunity.lodging_notes", "trips", "lodging_notes", "string">>,
       <<"opportunity.deposit_date", "trips", "deposit_date", "date">>,
       <<"opportunity.final_payment", "trips", "final_payment", "date">>,
       <<"opportunity.trip_description", "trips", "trip_description", "string">>,
       <<"opportunity.trip_vendor", "trips", "trip_vendor", "string">>,
       <<"opportunity.vendor_terms", "trips", "vendor_terms", "string">>,
       <<"opportunity.travel_business_used", "trips", "travel_business_used", "string">>,
       <<"opportunity.internal_trip_details", "trips", "internal_trip_details", "string">>,
       <<"opportunity.is_child", "trips", "is_child", "boolean">>,
       <<"opportunity.user_roomate", "passengers", "user_roomate", "string">>,
       <<"opportunity.room_occupancy", "passengers", "room_occupancy", "string">>,
       <<"opportunity.passport_number", "passengers", "passport_number", "string">>,
       <<"opportunity.passport_expire", "passengers", "passport_expire", "date">>,
       <<"opportunity.passport_file", "passengers", "passport_file", "string">>,
       <<"opportunity.passport_country", "passengers", "passport_country", "string">>,
       <<"opportunity.health_state", "passengers", "health_state", "string">>,
       <<"opportunity.health_medical_info", "passengers", "health_medical_info", "string">>,
       <<"opportunity.primary_phy", "passengers", "primary_phy", "string">>,
       <<"opportunity.physician_phone", "passengers", "physician_phone", "string">>,
       <<"opportunity.medication_list", "passengers", "medication_list", "string">>,
       <<"opportunity.contact1_ulast_name", "passengers", "contact1_ulast_name", "string">>,
       <<"opportunity.contact1_ufirst_name", "passengers", "contact1_ufirst_name", "string">>,
       <<"opportunity.contact1_urelationship", "passengers", "contact1_urelationship", "string">>,
       <<"opportunity.contact1_umailing_address", "passengers", "contact1_umailing_address", "string">>,
       <<"opportunity.contact1_ucity", "passengers", "contact1_ucity", "string">>,
       <<"opportunity.contact1_uzip", "passengers", "contact1_uzip", "string">>,
       <<"opportunity.contact1_uemail", "passengers", "contact1_uemail", "string">>,
       <<"opportunity.contact1_uphone", "passengers", "contact1_uphone", "string">>,
       <<"opportunity.contact1_umob_number", "passengers", "contact1_umob_number", "string">>,
       <<"opportunity.contact1_ustate", "passengers", "contact1_ustate", "string">>,
       <<"opportunity.form_submitted_date", "passengers", "form_submitted_date", "date">>,
       <<"opportunity.travel_category_license", "passengers", "travel_category_license", "string">>,
       <<"opportunity.passenger_signature", "passengers", "passenger_signature", "string">>,
       <<"opportunity.reservation", "passengers", "reservation", "string">>,
       <<"opportunity.mou", "passengers", "mou", "string">>,
       <<"opportunity.affidavit", "passengers", "affidavit", "string">> >>

\* runs of build_field_maps.main, at most
MaxRuns == 3

\* field_key in FIELD_KEY_TO_TABLE
HasStaticEntry(field_key) ==
    \E i \in DOMAIN FIELD_KEY_TO_TABLE : FIELD_KEY_TO_TABLE[i][1] = field_key

\* FIELD_KEY_TO_TABLE[field_key]
StaticEntry(field_key) ==
    FIELD_KEY_TO_TABLE[CHOOSE i \in DOMAIN FIELD_KEY_TO_TABLE :
                            FIELD_KEY_TO_TABLE[i][1] = field_key]

\* a row of field_maps without its surrogate id
FieldMapRow(ghl_key, field_key, table_column, tablename, data_type) ==
    [ghl_key |-> ghl_key, field_key |-> field_key, table_column |-> table_column,
     tablename |-> tablename, data_type |-> data_type]

\* one element of response['customFields']
FieldDescriptor(id, fieldKey) ==
    [id |-> id, fieldKey |-> fieldKey, name |-> StrV("Field"), dataType |-> StrV("TEXT")]

\* what GET locations/<id>/customFields?model=opportunity can answer: mapped and
\* unmapped keys, a descriptor without id or without key, one key under two ids,
\* one id twice
FieldDescriptorLists ==
    {<< >>,
     <<FieldDescriptor(StrV("tJoung7L6ymp1vHmU2Tq"), StrV("opportunity.trip_name")),
       FieldDescriptor(StrV("fld_9"), StrV("opportunity.shoe_size")),
       FieldDescriptor(StrV("fld_2"), StrV("opportunity.passport_number"))>>,
     <<FieldDescriptor(NoneV, StrV("opportunity.passport_number")),
       FieldDescriptor(StrV("fld_3"), NoneV),
       FieldDescriptor(StrV("fld_4"), StrV("opportunity.passport_expire"))>>,
     <<FieldDescriptor(StrV("fld_5"), StrV("opportunity.birth_country")),
       FieldDescriptor(StrV("fld_6"), StrV("opportunity.birth_country")),
       FieldDescriptor(StrV("fld_8"), StrV("contact.nickname"))>>,
     <<FieldDescriptor(StrV("fld_7"), StrV("opportunity.passport_number")),
       FieldDescriptor(StrV("fld_7"), StrV("opportunity.passport_file"))>>}

\* the row ensure_trip_name_field_mapping creates
TripNameMapping ==
    FieldMapRow("passenger_tJoung7L6ymp1vHmU2Tq", "opportunity.trip_name", "trip_name",
                "passengers", "string")

\* what the table can hold before the first rebuild
InitialFieldMaps ==
    {{}, {TripNameMapping},
     {FieldMapRow("fld_2", "opportunity.passportnumber", "passport_number", "passengers",
                  "string"),
      FieldMapRow("fld_old", "opportunity.mou", "mou", "passengers", "string")}}

\* a delete that leaves the rows of other scripts in the table
FieldMapQueryDelete_KeepOthers(rows) == rows \cap {TripNameMapping}

\* FieldMap.query.delete(): the rows left in the table
FieldMapQueryDelete(rows) == {}

\* the FieldMap objects the loop adds to the session, in order
RECURSIVE BuiltRows(_, _)
BuiltRows(custom_fields, i) ==
    IF i > Len(custom_fields) THEN << >>
    ELSE LET field == custom_fields[i]
             rest == BuiltRows(custom_fields, i + 1)
         IN  IF ~Truthy(field.id) \/ ~Truthy(field.fieldKey) THEN rest
             ELSE IF HasStaticEntry(field.fieldKey.v)
                  THEN <<FieldMapRow(field.id.v, field.fieldKey.v,
                                     StaticEntry(field.fieldKey.v)[3],
                                     StaticEntry(field.fieldKey.v)[2],
                                     StaticEntry(field.fieldKey.v)[4])>> \o rest
             ELSE rest

\* a rebuild that reports nothing
MissingMappings_None(custom_fields, i) == << >>

\* missing_mappings: the descriptors the loop found no static entry for
RECURSIVE MissingMappings(_, _)
MissingMappings(custom_fields, i) ==
    IF i > Len(custom_fields) THEN << >>
    ELSE LET field == custom_fields[i]
             rest == MissingMappings(custom_fields, i + 1)
         IN  IF ~Truthy(field.id) \/ ~Truthy(field.fieldKey) THEN rest
             ELSE IF HasStaticEntry(field.fieldKey.v) THEN rest
             ELSE <<[field_key |-> field.fieldKey, id |-> field.id]>> \o rest

\* the INSERTs of the commit violate the unique constraint on ghl_key
UniqueViolation(table, added) ==
    \/ \E i, j \in DOMAIN added : i # j /\ added[i].ghl_key = added[j].ghl_key
    \/ \E i \in DOMAIN added : \E r \in table : r.ghl_key = added[i].ghl_key

FieldMapsInit ==
    /\ tz = 0
    /\ CodecIdle /\ StoreEmpty /\ PullIdle /\ SyncIdle
    /\ push = NoPush /\ api = NoApi /\ lk = NoLk /\ app = NoApp /\ proc = NoProc
    /\ \E l \in FieldDescriptorLists, t \in InitialFieldMaps :
          fm = [NoFm EXCEPT !.descriptors = l, !.rows = t]

\* build_field_maps.main(): the fetch fails and the script exits; the delete
\* fails, is rolled back and the script exits; or the table is cleared and
\* committed, the rows are built and committed, and the unmapped fields reported.
\* A failing second commit is rolled back and the script exits before the report
BuildFieldMaps ==
    /\ fm.runs < MaxRuns
    /\ \/ \E step \in {"fetch", "clear"} :
             fm' = [fm EXCEPT !.runs = @ + 1, !.last = "exit_" \o step,
                              !.missing_mappings = << >>, !.deleted = {}]
       \/ LET custom_fields == fm.descriptors
              cleared == FieldMapQueryDelete(fm.rows)
              added == BuiltRows(custom_fields, 1)
              failed == UniqueViolation(cleared, added)
              rows == IF failed THEN cleared ELSE cleared \cup Range(added)
          IN  fm' = [fm EXCEPT !.runs = @ + 1,
                               !.rows = rows,
                               !.deleted = fm.rows \ cleared,
                               !.last = IF failed THEN "exit_commit" ELSE "complete",
                               !.missing_mappings = IF failed THEN << >>
                                                    ELSE MissingMappings(custom_fields, 1),
                               !.first = IF fm.first_done \/ failed THEN @ ELSE rows,
                               !.first_done = @ \/ ~failed]
    /\ UNCHANGED <<codecVars, storeVars, pullVars, syncVars, push, api, lk, app, proc>>

\* ensure_trip_name_field_mapping(): adds the passengers.trip_name row unless a
\* row for that table and key is there
EnsureTripNameFieldMapping ==
    /\ LET mapping == {r \in fm.rows : r.tablename = "passengers"
                                         /\ r.field_key = "opportunity.trip_name"}
       IN  fm' = IF mapping # {} \/ UniqueViolation(fm.rows, <<TripNameMapping>>) THEN fm
                 ELSE [fm EXCEPT !.rows = @ \cup {TripNameMapping}]
    /\ UNCHANGED <<codecVars, storeVars, pullVars, syncVars, push, api, lk, app, proc>>

FieldMapsNext ==
    \/ BuildFieldMaps
    \/ EnsureTripNameFieldMapping

SpecFieldMaps == FieldMapsInit /\ [][FieldMapsNext]_vars

(***************************************************************************)
(* .scripts/link_passengers_to_trips.py and                                *)
(* .scripts/link_passengers_comprehensive.py : the linkers                 *)
(***************************************************************************)
\* the CRM id of the trip-name field
TRIP_NAME_FIELD_ID == "tJoung7L6ymp1vHmU2Tq"

\* str.strip() on blanks
RECURSIVE Strip(_)
Strip(s) ==
    IF Len(s) = 0 THEN ""
    ELSE IF CharAt(s, 1) = " " THEN Strip(Tail(s))
    ELSE IF CharAt(s, Len(s)) = " " THEN Strip(SubSeq(s, 1, Len(s) - 1))
    ELSE s

\* sub in s
Contains(sub, s) ==
    \E i \in 1..(Len(s) - Len(sub) + 1) : SubSeq(s, i, i + Len(sub) - 1) = sub

\* x or y
PyOr(x, y) == IF Truthy(x) THEN x ELSE y

\* get_trip_name_from_opportunity: fieldValue or fieldValueString or value of the
\* first entry of customFields that carries the trip-name id; None when there is no
\* such entry, when the fetch raised, or when an entry before it is no dict (the
\* AttributeError is caught). The key 'value' is never on the wire
GetTripNameFromOpportunity(opp, fetched) ==
    IF ~fetched \/ opp.customFields.kind # "list" THEN NoneV
    ELSE LET items == opp.customFields.items
             stops == {i \in DOMAIN items :
                          \/ items[i].kind # "dict"
                          \/ items[i].id = StrV(TRIP_NAME_FIELD_ID)}
         IN  IF stops = {} THEN NoneV
             ELSE LET field == items[CHOOSE i \in stops : \A j \in stops : i <= j]
                  IN  IF field.kind # "dict" THEN NoneV
                      ELSE PyOr(FieldGet(field, "fieldValue").v,
                                PyOr(FieldGet(field, "fieldValueString").v, NoneV))

\* the first trip of the list that satisfies the test of one of the three loops
FirstTrip(all_trips, hits) ==
    all_trips[CHOOSE i \in hits : \A j \in hits : i <= j]

\* find_matching_trip that tries the partial match before the exact one
find_matching_trip_PartialFirst(trip_name, all_trips) ==
    IF ~Truthy(trip_name) THEN {}
    ELSE LET name == Strip(PyStr(trip_name))
             named == {i \in DOMAIN all_trips : Truthy(all_trips[i].name)}
             exact == {i \in named : Lower(all_trips[i].name.v) = Lower(name)}
             partial == {i \in named : Contains(Lower(name), Lower(all_trips[i].name.v))}
         IN  IF Len(name) < 3 THEN {}
             ELSE IF partial # {} THEN {FirstTrip(all_trips, partial)}
             ELSE IF exact # {} THEN {FirstTrip(all_trips, exact)}
             ELSE {}

\* find_matching_trip(trip_name, all_trips): the trip returned, if any
find_matching_trip(trip_name, all_trips) ==
    IF ~Truthy(trip_name) THEN {}
    ELSE LET name == Strip(PyStr(trip_name))
             named == {i \in DOMAIN all_trips : Truthy(all_trips[i].name)}
             exact == {i \in named : Lower(all_trips[i].name.v) = Lower(name)}
             partial == {i \in named : Contains(Lower(name), Lower(all_trips[i].name.v))}
             reverse == {i \in named : Contains(Lower(all_trips[i].name.v), Lower(name))}
         IN  IF Len(name) < 3 THEN {}
             ELSE IF exact # {} THEN {FirstTrip(all_trips, exact)}
             ELSE IF partial # {} THEN {FirstTrip(all_trips, partial)}
             ELSE IF reverse # {} THEN {FirstTrip(all_trips, reverse)}
             ELSE {}

\* trip_lookup = {trip.name.lower(): trip for trip in all_trips if trip.name} as
\* the sequence of its items: a key keeps the place of its first insertion and
\* the trip of its last
TripLookup(all_trips) ==
    LET named == SelectSeq(all_trips, LAMBDA t : Truthy(t.name))
        firsts == {i \in DOMAIN named :
                      \A j \in DOMAIN named :
                         Lower(named[j].name.v) = Lower(named[i].name.v) => i <= j}
        order == SelectSeq([i \in DOMAIN named |-> i], LAMBDA i : i \in firsts)
    IN  [k \in DOMAIN order |->
            [key |-> Lower(named[order[k]].name.v),
             trip |-> named[CHOOSE j \in DOMAIN named :
                               /\ Lower(named[j].name.v) = Lower(named[order[k]].name.v)
                               /\ \A m \in DOMAIN named :
                                     Lower(named[m].name.v) = Lower(named[j].name.v)
                                        => m <= j]]]

\* the loop body of the comprehensive linker with the partial match taken from the
\* last item of trip_lookup instead of the first
LookupMatch_LastPartial(trip_name, trip_lookup) ==
    LET name == Lower(Strip(trip_name))
        exact == {k \in DOMAIN trip_lookup : trip_lookup[k].key = name}
        partial == {k \in DOMAIN trip_lookup :
                       \/ Contains(name, trip_lookup[k].key)
                       \/ Contains(trip_lookup[k].key, name)}
    IN  IF exact # {} THEN {trip_lookup[CHOOSE k \in exact : TRUE].trip}
        ELSE IF partial # {}
             THEN {trip_lookup[CHOOSE k \in partial : \A m \in partial : m <= k].trip}
        ELSE {}

\* the match of the loop body of link_passengers_to_trips in
\* link_passengers_comprehensive.py
LookupMatch(trip_name, trip_lookup) ==
    LET name == Lower(Strip(trip_name))
        exact == {k \in DOMAIN trip_lookup : trip_lookup[k].key = name}
        partial == {k \in DOMAIN trip_lookup :
                       \/ Contains(name, trip_lookup[k].key)
                       \/ Contains(trip_lookup[k].key, name)}
    IN  IF exact # {} THEN {trip_lookup[CHOOSE k \in exact : TRUE].trip}
        ELSE IF partial # {}
             THEN {trip_lookup[CHOOSE k \in partial : \A m \in partial : k <= m].trip}
        ELSE {}

\* the orders Trip.query.all() can return the rows in
RECURSIVE TripOrders(_)
TripOrders(rows) ==
    IF rows = {} THEN {<< >>}
    ELSE UNION {{<<r>> \o rest : rest \in TripOrders(rows \ {r})} : r \in rows}

\* the loop body that also stores the trimmed trip name on the passenger
Linked_StoresTrimmedName(p, found, set_updated_at, now) ==
    IF found = {} THEN p
    ELSE LET trip == CHOOSE t \in found : TRUE
         IN  UpdateRow(p, [trip_id |-> trip.id, updated_at |-> IntV(now),
                           trip_name |-> StrV(Strip(PyStr(p.trip_name)))])

\* the passenger after the loop body: trip_id set when a trip matched
Linked(p, found, set_updated_at, now) ==
    IF found = {} THEN p
    ELSE LET trip == CHOOSE t \in found : TRUE
         IN  UpdateRow(p, IF set_updated_at
                          THEN [trip_id |-> trip.id, updated_at |-> IntV(now)]
                          ELSE [trip_id |-> trip.id])

\* link_passengers_to_trips() of link_passengers_to_trips.py: every passenger
\* without trip_id is matched by the trip name the CRM holds for it; the UPDATE
\* stamps updated_at (onupdate of the column); with no such passenger the run
\* returns before the loop and nothing changes
LinkPassengersToTrips ==
    /\ clock < MaxClock
    /\ \E all_trips \in TripOrders(trips), fetched \in BOOLEAN :
          /\ passengers' =
                {IF p.trip_id # NoneV THEN p
                 ELSE Linked(p, find_matching_trip(
                                    GetTripNameFromOpportunity(remote[p.id.v], fetched),
                                    all_trips), TRUE, clock + 1) : p \in passengers}
          /\ lk' = [script |-> "link_passengers_to_trips", all_trips |-> all_trips,
                    fetched |-> fetched, before |-> passengers]
    /\ clock' = clock + 1
    /\ UNCHANGED <<codecVars, syncVars, contacts, trips, trip_seq, remote, edits, lastOp,
                   push, api, fm, app, proc>>

\* link_passengers_to_trips() of link_passengers_comprehensive.py: every
\* passenger without trip_id and with a trip_name is matched by that name
LinkPassengersComprehensive ==
    /\ clock < MaxClock
    /\ \E all_trips \in TripOrders(trips) :
          /\ passengers' =
                {IF p.trip_id # NoneV \/ p.trip_name = NoneV \/ p.trip_name = StrV("") THEN p
                 ELSE Linked(p, LookupMatch(p.trip_name.v, TripLookup(all_trips)),
                             TRUE, clock + 1) : p \in passengers}
          /\ lk' = [script |-> "link_passengers_comprehensive", all_trips |-> all_trips,
                    fetched |-> TRUE, before |-> passengers]
    /\ clock' = clock + 1
    /\ UNCHANGED <<codecVars, syncVars, contacts, trips, trip_seq, remote, edits, lastOp,
                   push, api, fm, app, proc>>

\* the match of the loop body of link_passengers_to_trips in
\* link_passengers_from_raw_json.py: trip_exact (the last trip of a name), then
\* trip_lower, then the first partial match in the order of trip_lower
RawJsonMatch(trip_name, all_trips) ==
    LET exact == {i \in DOMAIN all_trips :
                     /\ Truthy(all_trips[i].name)
                     /\ all_trips[i].name.v = Strip(trip_name)}
    IN  IF exact # {} THEN {all_trips[CHOOSE i \in exact : \A j \in exact : j <= i]}
        ELSE LookupMatch(trip_name, TripLookup(all_trips))

\* link_passengers_to_trips() of link_passengers_from_raw_json.py: every
\* passenger without trip_id and with a trip_name is matched by that name
LinkPassengersFromRawJson ==
    /\ clock < MaxClock
    /\ \E all_trips \in TripOrders(trips) :
          /\ passengers' =
                {IF p.trip_id # NoneV \/ p.trip_name = NoneV \/ p.trip_name = StrV("") THEN p
                 ELSE Linked(p, RawJsonMatch(p.trip_name.v, all_trips),
                             TRUE, clock + 1) : p \in passengers}
          /\ lk' = [script |-> "link_passengers_from_raw_json", all_trips |-> all_trips,
                    fetched |-> TRUE, before |-> passengers]
    /\ clock' = clock + 1
    /\ UNCHANGED <<codecVars, syncVars, contacts, trips, trip_seq, remote, edits, lastOp,
                   push, api, fm, app, proc>>

\* names of trips and trip names of passengers
LinkTripNames == <<"Paris Spring", "Paris", "paris", "Paris ", "NY", "Rome", "Par">>
LinkPassengerNames == {"Paris", "PARIS", "Paris ", "NY", "Par", "Rome and Paris", ""}

\* the trip name of the second passenger
LinkOtherName == "Rome"

\* tables of two trips of different names
LinkTripTables ==
    {{InsertRow(TRIP_MODEL_COLUMNS, TRIP_DEFAULTS,
                [id |-> IntV(1), name |-> StrV(LinkTripNames[ij[1]])], 0),
      InsertRow(TRIP_MODEL_COLUMNS, TRIP_DEFAULTS,
                [id |-> IntV(2), name |-> StrV(LinkTripNames[ij[2]])], 0)} :
        ij \in {x \in (DOMAIN LinkTripNames) \X (DOMAIN LinkTripNames) : x[1] < x[2]}}

\* one passenger without trip and one that is either unlinked or linked to trip 2
LinkInit ==
    /\ tz = 0
    /\ CodecIdle /\ SyncIdle
    /\ push = NoPush /\ api = NoApi /\ fm = NoFm /\ lk = NoLk /\ app = NoApp /\ proc = NoProc
    /\ contacts = {StrV("c1")} /\ trip_seq = 2
    /\ trips \in LinkTripTables
    /\ edits = 0 /\ clock = 0 /\ lastOp = NoOp
    /\ \E n \in LinkPassengerNames, other \in {NoneV, IntV(2)} :
          /\ passengers = {InsertRow(PASSENGER_MODEL_COLUMNS, PASSENGER_DEFAULTS,
                                     [id |-> StrV("opp1"), contact_id |-> StrV("c1"),
                                      trip_name |-> StrV(n)], 0),
                           InsertRow(PASSENGER_MODEL_COLUMNS, PASSENGER_DEFAULTS,
                                     [id |-> StrV("opp2"), contact_id |-> StrV("c1"),
                                      trip_name |-> StrV(LinkOtherName),
                                      trip_id |-> other], 0)}
          /\ remote = [o \in OppIds |->
                          RemoteRecord(StrV("c1"),
                                       WireList(<<Entry(TRIP_NAME_FIELD_ID,
                                                        StrV(IF o = "opp1" THEN n
                                                             ELSE LinkOtherName))>>))]

LinkNext ==
    \/ LinkPassengersToTrips
    \/ LinkPassengersComprehensive
    \/ LinkPassengersFromRawJson

SpecLink == LinkInit /\ [][LinkNext]_vars

(***************************************************************************)
(* Properties of the CRM client                                            *)
(***************************************************************************)
\* C16: a response whose status is none of 200, 201, 202, 204 makes _make_request
\* raise GoHighLevelAPIError with status_code equal to the response's status and,
\* when the body is JSON, the parsed body as response_data
C16_ErrorCarriesStatus ==
    (api.calls > 0 /\ api.response.status \notin {0, 200, 201, 202, 204})
        => /\ api.outcome.kind = "GoHighLevelAPIError"
           /\ api.outcome.status_code = IntV(api.response.status)
           /\ api.response.body.valid =>
                 api.outcome.response_data = JsonOf(api.response.body)

\* C17: the requests made through the instance are the calls, each once and in
\* call order, and at least min_request_interval lies between the starts of two
\* consecutive requests
C17_MinimumSpacing ==
    /\ Len(api.starts) = api.calls
    /\ \A k \in DOMAIN api.starts : api.starts[k].call = k
    /\ \A k \in DOMAIN api.starts :
          k > 1 => api.starts[k].at - api.starts[k - 1].at >= min_request_interval

\* a call had to sleep: it came less than the interval after the start of the
\* request before it, which had already been answered
C17_Witness ==
    /\ api.calls >= 2
    /\ \E k \in DOMAIN api.starts :
          /\ k > 1
          /\ api.starts[k].at - api.starts[k - 1].at = min_request_interval

(***************************************************************************)
(* Properties of the pulls                                                 *)
(***************************************************************************)
TimestampColumns == {"created_at", "updated_at", "last_synced_at"}
StripTimestamps(rows) == {[c \in (DOMAIN r) \ TimestampColumns |-> r[c]] : r \in rows}

PullKinds == {"pull_trip", "pull_passenger"}
KindFieldMap(kind) == IF kind = "pull_trip" THEN TRIP_FIELD_MAP ELSE PASSENGER_FIELD_MAP
KindDateColumns(kind) ==
    IF kind = "pull_trip" THEN TRIP_DATE_COLUMNS ELSE PASSENGER_DATE_COLUMNS
\* the columns that the string branch of the decoder handles
KindStringColumns(kind) ==
    IF kind = "pull_trip"
    THEN MapColumns(TRIP_FIELD_MAP) \ (TRIP_DATE_COLUMNS \cup TRIP_INTEGER_COLUMNS
            \cup TRIP_DECIMAL_COLUMNS \cup TRIP_BOOLEAN_COLUMNS)
    ELSE MapColumns(PASSENGER_FIELD_MAP) \ (PASSENGER_DATE_COLUMNS
            \cup PASSENGER_BOOLEAN_COLUMNS)
\* the columns pull assigns again after the merge of the mapped fields
KindReassigned(kind) == IF kind = "pull_trip" THEN {"name"} ELSE {"trip_name"}

\* the local rows of the opportunity o
RowsOf(trs, pas, kind, o) ==
    IF kind = "pull_trip" THEN {r \in trs : r.ghl_opportunity_id = StrV(o)}
    ELSE {r \in pas : r.id = StrV(o)}

\* this step is a pull of o whose fetch (and contact check) succeeded
PullStep(kind, o) ==
    /\ clock' = clock + 1
    /\ lastOp'.op = kind /\ lastOp'.id = o /\ lastOp'.at \in {"decode", "done"}

\* the raw value the opportunity o carries for a field key
RawValue(o, field_key) ==
    DictGet(parse_ghl_custom_fields(remote[o].customFields).d, StrV(field_key))

\* C1: a pull that repeats the preceding successful pull of the same opportunity
\* id, the CRM data being unchanged in between, leaves exactly one local record
\* for the id and changes no column of any row other than the timestamps.
C1_PullTwiceIdempotent ==
    [][(lastOp'.repeat /\ clock' = clock + 1) =>
          /\ StripTimestamps(trips') = StripTimestamps(trips)
          /\ StripTimestamps(passengers') = StripTimestamps(passengers)
          /\ Cardinality(trips') = Cardinality(trips)
          /\ Cardinality(passengers') = Cardinality(passengers)
          /\ Cardinality(RowsOf(trips', passengers', lastOp'.op, lastOp'.id)) = 1]_vars

C1_Witness ==
    /\ lastOp.repeat /\ lastOp.op = "pull_trip" /\ lastOp.at = "done"
    /\ "arrival_date" \in DOMAIN lastOp.mapped
    /\ \E r \in trips : r.ghl_opportunity_id = StrV(lastOp.id) /\ r.arrival_date # NoneV

\* C6: after a pull of a trip whose customFields list has an entry {id: F,
\* fieldValue: v}, F being the CRM field id registered for a DATE column and v an
\* ISO-8601 timestamp, the local trip has that column equal to the date of v.
C6_JoinByCrmFieldId ==
    \A o \in OppIds :
       (lastOp.op = "pull_trip" /\ lastOp.id = o /\ lastOp.at = "done"
            /\ remote[o].customFields.kind = "list") =>
          \A i \in DOMAIN remote[o].customFields.items :
             LET e == remote[o].customFields.items[i]
                 registered == e.kind = "dict" /\ e.id.t = "str"
                                  /\ e.id.v \in DOMAIN CrmFieldKey
                 column == (CHOOSE p \in Range(TRIP_FIELD_MAP) :
                                p[1] = CrmFieldKey[e.id.v])[2]
             IN  (/\ registered
                  /\ ColumnType(TRIP_MODEL_COLUMNS, column) = "DATE"
                  /\ e.fieldValue = StrV("2025-06-01T00:00:00Z")) =>
                     \E r \in trips : /\ r.ghl_opportunity_id = StrV(o)
                                      /\ r[column] = DateV(2025, 6, 1)

\* C8: a pull whose opportunity carries a present but empty or falsy raw value for
\* a STRING/TEXT field produces no key for the column in the decoded map and
\* leaves the stored value of the column as it was.
C8_FalsyStringOmitted ==
    [][\A o \in OppIds, kind \in PullKinds :
          PullStep(kind, o) =>
             \A p \in Range(KindFieldMap(kind)) :
                (/\ p[2] \in KindStringColumns(kind)
                 /\ RawValue(o, p[1]) # NoneV
                 /\ ~Truthy(RawValue(o, p[1]))) =>
                    /\ p[2] \notin DOMAIN lastOp'.mapped
                    /\ \A r \in RowsOf(trips, passengers, kind, o) :
                          \E r2 \in RowsOf(trips', passengers', kind, o) :
                             r2[p[2]] = r[p[2]]]_vars

\* C9: a pull whose opportunity carries a garbage string for a DATE field does
\* not raise, decodes no key for the column, keeps the date stored before, and
\* still decodes the string fields of the same record.
C9_GarbageDateSkipped ==
    [][\A o \in OppIds, kind \in PullKinds :
          PullStep(kind, o) =>
             \A p \in Range(KindFieldMap(kind)) :
                (/\ p[2] \in KindDateColumns(kind)
                 /\ RawValue(o, p[1]).t = "str"
                 /\ RawValue(o, p[1]).v \in GarbageStrings) =>
                    /\ ~lastOp'.raised
                    /\ p[2] \notin DOMAIN lastOp'.mapped
                    /\ \A r \in RowsOf(trips, passengers, kind, o) :
                          \E r2 \in RowsOf(trips', passengers', kind, o) :
                             r2[p[2]] = r[p[2]]
                    /\ \A q \in Range(KindFieldMap(kind)) :
                          (/\ q[2] \in KindStringColumns(kind)
                           /\ RawValue(o, q[1]).t = "str"
                           /\ RawValue(o, q[1]).v # "") =>
                              /\ q[2] \in DOMAIN lastOp'.mapped
                              /\ lastOp'.mapped[q[2]] = RawValue(o, q[1])
                              /\ q[2] \notin KindReassigned(kind) =>
                                    \A r2 \in RowsOf(trips', passengers', kind, o) :
                                       r2[q[2]] = RawValue(o, q[1])]_vars

C9_Witness ==
    /\ lastOp.op = "pull_trip" /\ lastOp.at = "done" /\ ~lastOp.created
    /\ RawValue(lastOp.id, "opportunity.arrivaldate") = StrV("garbage")
    /\ \E r \in trips : /\ r.ghl_opportunity_id = StrV(lastOp.id)
                        /\ r.arrival_date = DateV(2025, 6, 1)
                        /\ r.destination = StrV("Rome")

(***************************************************************************)
(* Properties of the codec                                                 *)
(***************************************************************************)
\* C5: encoding {column: v} for non-null native values of mapped columns and
\* decoding the result gives {column: v} again.
C5_RoundTripIdentity ==
    codec_pc = "roundtrip" => (~mapped.raised /\ mapped.mapped = model_data)

C10_BooleanAlwaysDecoded ==
    (/\ codec_pc = "mapped" /\ entity = "trip"
     /\ DictGet(parsed.d, StrV("opportunity.ischild")) # NoneV) =>
        LET raw == DictGet(parsed.d, StrV("opportunity.ischild"))
        IN  /\ "is_child" \in DOMAIN mapped.mapped
            /\ mapped.mapped["is_child"] =
                  BoolV(IF raw.t = "bool" THEN raw.v
                        ELSE raw.t = "str" /\ raw.v \in
                                {"true", "TRUE", "True", "yes", "Yes", "YES", "1"})

(***************************************************************************)
(* Properties of the full synchronisation                                  *)
(***************************************************************************)
LastLog == sync_logs[Len(sync_logs)]
TraceHas(f, event) == \E k \in DOMAIN f.trace : f.trace[k] = event
StageOrder == <<"pipelines", "custom_fields", "contacts", "trips", "vendors", "passengers">>
FullSyncOver == fs.pc \in {"returned", "raised"}

\* C2: when the fetch of a contacts page raises after the pipeline and custom-field
\* stages succeeded, perform_full_sync ends with the sync log in status 'failed'
\* and none of the trips, vendors and passengers stages has been started
C2_ContactFailureFailsRun ==
    (FullSyncOver /\ TraceHas(fs, <<"caught", "contacts">>))
        => /\ LastLog.status = "failed"
           /\ \A s \in {"trips", "vendors", "passengers"} : ~TraceHas(fs, <<"start", s>>)

\* C3: perform_full_sync appends one log entry in status 'in_progress' before the
\* first stage; the status only changes from in_progress to success (when it
\* returns, every stage having returned) or to failed (when a stage raised, the
\* message stored in errors and the exception leaving perform_full_sync); what
\* earlier stages committed is still there after the failure; a finished run never
\* leaves the entry in_progress
C3_SyncLogLifecycle ==
    [][/\ (fs.pc = "idle" /\ fs'.pc # "idle")
            => /\ Len(sync_logs') = Len(sync_logs) + 1
               /\ SubSeq(sync_logs', 1, Len(sync_logs)) = sync_logs
               /\ LastLog'.status = "in_progress"
               /\ fs'.trace = << >>
       /\ fs.pc # "idle" => Len(sync_logs') = Len(sync_logs)
       /\ (fs.pc # "idle" /\ sync_logs' # sync_logs)
            => /\ LastLog.status = "in_progress"
               /\ \A k \in 1..(Len(sync_logs) - 1) : sync_logs'[k] = sync_logs[k]
               /\ \/ /\ LastLog'.status = "success"
                     /\ fs'.pc = "returned"
                     /\ \A k \in DOMAIN StageOrder : TraceHas(fs', <<"end", StageOrder[k]>>)
                  \/ /\ LastLog'.status = "failed"
                     /\ fs'.pc = "raised"
                     /\ fs'.exc # ""
                     /\ LastLog'.errors = <<fs'.exc>>
                     /\ fs'.trace[Len(fs'.trace)][1] = "raise"
                     /\ aux' = aux /\ contacts' = contacts /\ trips' = trips
                     /\ passengers' = passengers
       /\ fs'.pc = "returned" => LastLog'.status = "success"
       /\ fs'.pc = "raised" => (LastLog'.status = "failed" /\ LastLog'.errors = <<fs'.exc>>)
       /\ fs'.pc \notin {"idle", "returned", "raised"} => LastLog'.status = "in_progress"
      ]_vars

C11_TypedKeyFirst ==
    codec_pc \in {"parsed", "mapped"} =>
        \A i \in DOMAIN wire.items :
            LET e == wire.items[i]
            IN  (/\ e.kind = "dict"
                 /\ e.id = StrV("opportunity.destination")
                 /\ \A j \in DOMAIN wire.items :
                       j > i => ~(wire.items[j].kind = "dict" /\ wire.items[j].id = e.id))
                    => DictGet(parsed.d, e.id) =
                          (IF e.fieldValueString # Absent THEN e.fieldValueString
                           ELSE IF e.fieldValue # Absent THEN e.fieldValue
                           ELSE NoneV)

(***************************************************************************)
(* Properties of the paginated stages and of the contact check             *)
(***************************************************************************)
\* the pages a stage asked the CRM for, in the order of the requests
FetchedPages(f) ==
    LET fetches == SelectSeq(f.trace, LAMBDA e : e[1] = "fetch")
    IN  [k \in DOMAIN fetches |-> fetches[k][3]]

\* the opportunities of a CRM list that carry an id
WithId(opportunities) == {i \in DOMAIN opportunities : Truthy(OppGet(opportunities[i], "id"))}

\* C12: a direct call of sync_passenger_opportunities (every opportunity's contact
\* being local) or of sync_trip_opportunities, with no fetch failing, asks for the
\* pages 1, 2, ... up to the first page shorter than limit, and returns the number
\* N of opportunities the CRM holds, with or without 'total' in the answer
C12_PagesUntilShortPage ==
    \A stage \in {"trips", "passengers"} :
        (/\ fs.pc = "returned"
         /\ TraceHas(fs, <<"start", stage>>)
         /\ fs.caught # "GoHighLevelAPIError"
         /\ \A i \in DOMAIN crm.passengers : crm.passengers[i].contactId \in contacts)
            => /\ fs.results[stage] = Cardinality(WithId(crm[stage]))
               /\ FetchedPages(fs) = [k \in 1..((Len(crm[stage]) \div fs.limit) + 1) |-> k]

\* the opportunities of a page that sync_passenger_opportunities has to skip: id
\* and contactId present, no local contact of that id
NoLocalContact(page, local_contacts) ==
    {i \in DOMAIN page : /\ Truthy(OppGet(page[i], "id"))
                         /\ Truthy(OppGet(page[i], "contactId"))
                         /\ OppGet(page[i], "contactId") \notin local_contacts}

\* C13: a page of the bulk passenger pull stores nothing, counts every opportunity
\* without a local contact as skipped when the page is processed to its end, and
\* catches an exception only for an opportunity that has a local contact; the
\* single pull of an opportunity whose contact is missing or not local raises at
\* the contact check and leaves the store as it was; every stored passenger's
\* contact_id is the id of a local contact
C13_PassengerHasLocalContact ==
    [][/\ \A p \in passengers' : Truthy(p.contact_id) /\ p.contact_id \in contacts'
       /\ (fs.pc = "passengers" /\ fs' # fs) =>
             LET page == SearchPage(crm.passengers, fs.limit, fs.page)
                 missing == NoLocalContact(page, contacts)
             IN  /\ passengers' = passengers
                 /\ fs'.caught = "" => fs'.skipped = fs.skipped + Cardinality(missing)
                 /\ fs'.caught = "AttributeError" => missing # DOMAIN page
       /\ (/\ clock' = clock + 1
           /\ lastOp'.op = "pull_passenger"
           /\ lastOp'.at # "fetch"
           /\ OppGet(remote[lastOp'.id], "contactId") \notin contacts) =>
             /\ lastOp'.raised
             /\ lastOp'.at = "contact"
             /\ storeVars' = storeVars
      ]_vars

\* a bulk pull has skipped an opportunity, a single pull has stored a passenger and
\* the last single pull was refused at the contact check
C13_Witness ==
    /\ fs.skipped > 0
    /\ passengers # {}
    /\ lastOp.op = "pull_passenger" /\ lastOp.raised /\ lastOp.at = "contact"

(***************************************************************************)
(* Properties of a failing fetch                                           *)
(***************************************************************************)
\* C14: a pull_trip_from_ghl or pull_passenger_from_ghl whose get_opportunity call
\* fails ends by raising, and contacts, trips and passengers are what they were
\* before the call
C14_FetchFailurePropagates ==
    [][(clock' = clock + 1 /\ lastOp'.at = "fetch")
          => /\ lastOp'.op \in {"pull_trip", "pull_passenger"}
             /\ lastOp'.raised
             /\ storeVars' = storeVars]_vars

\* a fetch has failed while the store held a row written by an earlier pull
C14_Witness ==
    /\ lastOp.at = "fetch" /\ lastOp.raised
    /\ trips \cup passengers # {}

(***************************************************************************)
(* Properties of the update branch of a push                               *)
(***************************************************************************)
\* the mapped columns of the pushed object that hold a value
NonNullMappedColumns(p) ==
    LET field_map == IF p.op = "push_trip" THEN TRIP_FIELD_MAP ELSE PASSENGER_FIELD_MAP
        model_columns == IF p.op = "push_trip" THEN TRIP_MODEL_COLUMNS
                         ELSE PASSENGER_MODEL_COLUMNS
    IN  {c \in MapColumns(field_map) : HasAttr(model_columns, c) /\ p.row[c] # NoneV}

\* the requests of the push of the given kind, in the order they were sent
RequestsOf(p, req) == SelectSeq(p.requests, LAMBDA r : r.req = req)

\* C15: a push that took the update branch sent exactly one core update first;
\* when it succeeded, one upsert was sent for each mapped column holding a value,
\* each for a different field key, whether or not earlier upserts failed, and the
\* push returned; when it failed, the push raised and no upsert was sent
C15_UpdateThenOneUpsertPerColumn ==
    push.at = "update" =>
        LET upserts == RequestsOf(push, "upsert")
        IN  /\ Len(RequestsOf(push, "update")) = 1
            /\ push.requests[1].req = "update"
            /\ IF push.requests[1].ok
               THEN /\ ~push.raised
                    /\ Len(upserts) = Cardinality(NonNullMappedColumns(push))
                    /\ \A i, j \in DOMAIN upserts : upserts[i].key = upserts[j].key => i = j
                    /\ Len(push.requests) = 1 + Len(upserts)
               ELSE /\ push.raised
                    /\ Len(push.requests) = 1

\* a push whose core update succeeded and whose first upsert failed, with further
\* upserts sent after it
C15_Witness ==
    /\ push.at = "update"
    /\ ~push.raised
    /\ Len(push.requests) >= 3
    /\ push.requests[1].ok
    /\ ~push.requests[2].ok

(***************************************************************************)
(* Properties of the rebuild                                               *)
(***************************************************************************)
\* a run of main that reached BUILD COMPLETE
RebuildCompletes == fm'.runs = fm.runs + 1 /\ fm'.last = "complete"

\* C18: a completed run of main leaves the rows the first completed run left,
\* and none of the rows the table held before the run survives unless it is
\* built again
C18_RebuildIdempotent ==
    [][RebuildCompletes
          => /\ fm'.rows = fm'.first
             /\ fm'.deleted = fm.rows]_vars

\* a second completed run that deleted the row of the other script and built a
\* non-empty table again
C18_Witness ==
    /\ fm.runs >= 2 /\ fm.last = "complete"
    /\ TripNameMapping \in fm.deleted
    /\ fm.rows # {} /\ fm.rows = fm.first

\* the descriptors that carry an id and a field key
Usable(custom_fields) ==
    {i \in DOMAIN custom_fields :
        Truthy(custom_fields[i].id) /\ Truthy(custom_fields[i].fieldKey)}

\* C19: after a completed run every row comes from a descriptor whose field key
\* has an entry in the static table and carries that entry's table, column and
\* type; no two rows share a CRM field id; every descriptor with id and key and
\* without static entry is in the unmapped report and has no row
C19_OnlyStaticEntriesPersisted ==
    [][RebuildCompletes
          => LET custom_fields == fm.descriptors
             IN  /\ \A r \in fm'.rows :
                       \E i \in Usable(custom_fields) :
                          /\ custom_fields[i].id.v = r.ghl_key
                          /\ custom_fields[i].fieldKey.v = r.field_key
                          /\ HasStaticEntry(r.field_key)
                          /\ <<r.field_key, r.tablename, r.table_column, r.data_type>>
                                = StaticEntry(r.field_key)
                 /\ \A r1, r2 \in fm'.rows : r1.ghl_key = r2.ghl_key => r1 = r2
                 /\ \A i \in Usable(custom_fields) :
                       ~HasStaticEntry(custom_fields[i].fieldKey.v)
                          => /\ \E k \in DOMAIN fm'.missing_mappings :
                                   fm'.missing_mappings[k].id = custom_fields[i].id
                             /\ \A r \in fm'.rows : r.ghl_key # custom_fields[i].id.v]_vars

\* a completed run over a list with a mapped and an unmapped descriptor
C19_Witness ==
    /\ fm.last = "complete" /\ fm.runs >= 1
    /\ fm.missing_mappings # << >>
    /\ \E r \in fm.rows : r.ghl_key = "fld_2"

(***************************************************************************)
(* Properties of the linkers                                               *)
(***************************************************************************)
\* the passenger had no trip when the last linker run started
WasUnlinked(p) == \E q \in lk.before : q.id = p.id /\ q.trip_id = NoneV

\* the trips whose name equals the given name, case-insensitively
SameNameTrips(name) == {t \in trips : Truthy(t.name) /\ Lower(t.name.v) = Lower(name)}

Trimmed(s) == Strip(s) = s

\* the passengers whose trimmed trip name a linker run can match exactly: the name
\* of some trip, and of three characters or more for find_matching_trip
ExactlyMatchable(p) ==
    /\ WasUnlinked(p)
    /\ Truthy(p.trip_name)
    /\ SameNameTrips(Strip(p.trip_name.v)) # {}
    /\ lk.script = "link_passengers_to_trips" => Len(Strip(p.trip_name.v)) >= 3

C21_ShortNameNeverLinked ==
    lk.script # "none" =>
        \A p \in passengers :
            (WasUnlinked(p) /\ p.trip_name # NoneV /\ Len(p.trip_name.v) < 3)
                => p.trip_id = NoneV


\* trip_name.lower() in trip.name.lower(), and the reverse
Forward(name, t) == Contains(Lower(name), Lower(t.name.v))
Reverse(name, t) == Contains(Lower(t.name.v), Lower(name))

\* the first trip of the list of the last run that belongs to the set
FirstIn(set) ==
    lk.all_trips[CHOOSE i \in DOMAIN lk.all_trips :
                    /\ lk.all_trips[i] \in set
                    /\ \A j \in DOMAIN lk.all_trips : lk.all_trips[j] \in set => i <= j]

\* the passengers that only a partial match can link: unlinked when the run
\* started, a trimmed trip name of three characters or more, no trip of that name
PartialOnly(p) ==
    /\ WasUnlinked(p)
    /\ Truthy(p.trip_name)
    /\ Len(Strip(p.trip_name.v)) >= 3
    /\ SameNameTrips(Strip(p.trip_name.v)) = {}

\* the trips that match the name in the one or the other direction
ForwardTrips(name) == {t \in trips : Forward(name, t)}
ReverseTrips(name) == {t \in trips : Reverse(name, t)}

\* no two trips have the same name up to case
DistinctLowerNames ==
    \A t1 \in trips, t2 \in trips : Lower(t1.name.v) = Lower(t2.name.v) => t1 = t2

\* C27 (as stated): a passenger without exact match gets the first trip, in the
\* order of iteration, whose name contains the passenger's trip name or is
\* contained in it, and no trip when there is none
C27_FirstPartialInOrder ==
    (lk.script # "none" /\ lk.fetched) =>
        \A p \in passengers :
            PartialOnly(p) =>
                IF ForwardTrips(Strip(p.trip_name.v)) \cup ReverseTrips(Strip(p.trip_name.v)) = {}
                THEN p.trip_id = NoneV
                ELSE p.trip_id = FirstIn(ForwardTrips(Strip(p.trip_name.v))
                                            \cup ReverseTrips(Strip(p.trip_name.v))).id

\* the trip that the partial match of the last run's script assigns
PartialChoice(name) ==
    IF lk.script = "link_passengers_to_trips"
    THEN IF ForwardTrips(name) # {} THEN FirstIn(ForwardTrips(name))
         ELSE FirstIn(ReverseTrips(name))
    ELSE FirstIn(ForwardTrips(name) \cup ReverseTrips(name))

\* C27 (per script): a passenger without exact match gets no trip when no trip
\* matches in either direction and a matching trip otherwise; find_matching_trip
\* takes the first trip that contains the name and, failing that, the first trip
\* contained in the name; the linkers with a lookup table take the first trip that
\* matches in either direction when trip names are distinct up to case
C27_PartialMatchByScript ==
    (lk.script # "none" /\ lk.fetched) =>
        \A p \in passengers :
            PartialOnly(p) =>
                IF ForwardTrips(Strip(p.trip_name.v)) \cup ReverseTrips(Strip(p.trip_name.v)) = {}
                THEN p.trip_id = NoneV
                ELSE /\ \E t \in ForwardTrips(Strip(p.trip_name.v))
                                   \cup ReverseTrips(Strip(p.trip_name.v)) : p.trip_id = t.id
                     /\ (lk.script = "link_passengers_to_trips" \/ DistinctLowerNames)
                           => p.trip_id = PartialChoice(Strip(p.trip_name.v)).id

\* find_matching_trip has passed over a first trip that is contained in the
\* passenger's trip name and assigned the second, which contains it
C27_Witness ==
    /\ lk.script = "link_passengers_to_trips" /\ lk.fetched
    /\ \E p \in passengers :
          /\ PartialOnly(p)
          /\ Reverse(Strip(p.trip_name.v), lk.all_trips[1])
          /\ Forward(Strip(p.trip_name.v), lk.all_trips[2])
          /\ p.trip_id = lk.all_trips[2].id


\* the columns a linker may write
LinkerColumns == {"trip_id", "updated_at"}

\* the row q is the row p with nothing but the linker's columns changed, and
\* unchanged altogether when p had a trip
LinkerTouched(p, q) ==
    /\ q.id = p.id
    /\ \A c \in (DOMAIN p) \ LinkerColumns : q[c] = p[c]
    /\ p.trip_id # NoneV => q = p

\* C29: a step of a linker leaves the trips alone, keeps every passenger, changes
\* nothing but trip_id and updated_at, and changes nothing at all of a passenger
\* that had a trip, be it from before or from an earlier run
C29_LinkerFrame ==
    [][/\ trips' = trips
       /\ \A p \in passengers : \E q \in passengers' : LinkerTouched(p, q)
       /\ Cardinality(passengers') = Cardinality(passengers)]_vars

\* after two runs: the passenger linked before the runs is as it was, and the
\* passenger that the first run linked still has the trip and the stamp of that run
C29_Witness ==
    /\ clock = 2 /\ lk.script # "none"
    /\ \E p \in passengers : p.id = StrV("opp2") /\ p.trip_id = IntV(2) /\ p.updated_at = IntV(0)
    /\ \E p \in passengers : p.id = StrV("opp1") /\ p.trip_id # NoneV /\ p.updated_at = IntV(1)


(***************************************************************************)
(* Properties of the create branch of the push                             *)
(***************************************************************************)
\* the trip of the local store that the last push was called with
PushedTrip == CHOOSE t \in trips : t.id = push.row.id

\* C26: a push of a trip without CRM id asks for the pipelines first and sends at
\* most one create, into the first stage of the TripBooking pipeline; when the
\* create succeeded the trip holds the id the CRM returned and the push returned;
\* in every other case the push raised, no create succeeded and the trip still
\* has no CRM id
C26_CreateStoresReturnedId ==
    (push.op = "push_trip" /\ push.at = "create" /\ ~Truthy(push.row.ghl_opportunity_id)) =>
        LET creates == RequestsOf(push, "create")
        IN  /\ push.requests[1].req = "get_pipelines"
            /\ Len(RequestsOf(push, "get_pipelines")) = 1
            /\ Len(creates) <= 1
            /\ \A i \in DOMAIN creates :
                  /\ creates[i].key = TRIPBOOKING_PIPELINE_ID
                  /\ creates[i].value = StrV(CrmPipelines[1].stages[1])
            /\ IF creates # << >> /\ creates[1].ok
               THEN /\ ~push.raised
                    /\ Len(push.requests) = 2
                    /\ PushedTrip.ghl_opportunity_id = CreatedOppId(clock)
               ELSE /\ push.raised
                    /\ PushedTrip.ghl_opportunity_id = NoneV

\* a trip without CRM id was pushed, the create succeeded and the trip holds the
\* returned id
C26_Witness ==
    /\ push.op = "push_trip" /\ push.at = "create"
    /\ push.row.ghl_opportunity_id = NoneV
    /\ ~push.raised
    /\ Len(push.requests) = 2 /\ push.requests[2].req = "create" /\ push.requests[2].ok
    /\ PushedTrip.ghl_opportunity_id = CreatedOppId(clock)

(***************************************************************************)
(* app.py: the trip routes, with the handlers of two_way_sync.py they call *)
(***************************************************************************)
\* requests the application handles in one behaviour
MaxEvents == 2

\* Trip.passengers: the passengers whose trip_id is the trip's id
TripPassengers(passenger_rows, trip) == {p \in passenger_rows : p.trip_id = trip.id}

\* a delete of the trip that leaves its passengers in place
CascadeDelete_KeepsPassengers(passenger_rows, trip) == passenger_rows

\* db.session.delete(trip) with cascade='all, delete-orphan' on Trip.passengers:
\* the passengers table after the flush
CascadeDelete(passenger_rows, trip) == passenger_rows \ TripPassengers(passenger_rows, trip)

\* a handler that creates whatever the trip holds
ShouldCreate_Always(trip) == TRUE

\* auto_sync_on_trip_create: if not trip.ghl_opportunity_id
ShouldCreate(trip) == ~Truthy(trip.ghl_opportunity_id)

\* auto_sync_on_trip_update: if trip.ghl_opportunity_id
ShouldUpdate(trip) == Truthy(trip.ghl_opportunity_id)

\* the number of requests of the kind that were answered with success
Succeeded(requests, req) == Len(SelectSeq(requests, LAMBDA r : r.req = req /\ r.ok))

\* created with the opportunities the requests created for the trip counted in
Counted(created, trip_id, requests) ==
    [i \in DOMAIN created \cup {trip_id} |->
        (IF i \in DOMAIN created THEN created[i] ELSE 0)
        + (IF i = trip_id THEN Succeeded(requests, "create") ELSE 0)]

\* the orders a loop can visit the rows of a relationship in
Orders(rows) ==
    {s \in [1..Cardinality(rows) -> rows] : \A i, j \in DOMAIN s : s[i] = s[j] => i = j}

\* auto_sync_on_trip_create(trip) for the trip `row` of the session, which stands
\* for the rows `old` of the table; the session is committed afterwards by the
\* push or by the caller
AutoSyncOnTripCreateOf(route, row, old) ==
    LET now == app.events + 1
    IN  IF ShouldCreate(row)
        THEN \E created \in BOOLEAN :
                /\ PushCreate("push_trip", TRIPBOOKING_PIPELINE_ID, row, created)
                /\ trips' = Commit(trips, old,
                                   IF created
                                   THEN UpdateRow(row, [ghl_opportunity_id |-> CreatedOppId(now),
                                                        updated_at |-> IntV(now)])
                                   ELSE row)
                /\ app' = [events |-> now, calls |-> push'.requests,
                           last |-> [route |-> route, trip |-> row.id, row |-> row,
                                     outcome |-> IF created THEN "success" ELSE "warning",
                                     dependents |-> {}],
                           created |-> Counted(app.created, row.id.v, push'.requests)]
        ELSE /\ trips' = Commit(trips, old, row)
             /\ app' = [events |-> now, calls |-> << >>,
                        last |-> [route |-> route, trip |-> row.id, row |-> row,
                                  outcome |-> "success", dependents |-> {}],
                        created |-> Counted(app.created, row.id.v, << >>)]
             /\ UNCHANGED push

\* auto_sync_on_trip_update(trip), in the same way
AutoSyncOnTripUpdateOf(route, row, old) ==
    LET now == app.events + 1
    IN  IF ShouldUpdate(row)
        THEN /\ PushUpdate("push_trip", row.ghl_opportunity_id,
                           CustomFieldsData(TRIP_FIELD_MAP, TRIP_MODEL_COLUMNS, row), row)
             /\ trips' = Commit(trips, old, row)
             /\ app' = [events |-> now, calls |-> push'.requests,
                        last |-> [route |-> route, trip |-> row.id, row |-> row,
                                  outcome |-> IF push'.raised THEN "warning" ELSE "success",
                                  dependents |-> {}],
                        created |-> Counted(app.created, row.id.v, push'.requests)]
        ELSE /\ trips' = Commit(trips, old, row)
             /\ app' = [events |-> now, calls |-> << >>,
                        last |-> [route |-> route, trip |-> row.id, row |-> row,
                                  outcome |-> "success", dependents |-> {}],
                        created |-> app.created]
             /\ UNCHANGED push

\* what the trip form posts: the destination, and a name or none
FormDestinations == {"Paris"}
FormNames == {"", "Spring tour"}

\* trip_new, POST: the trip of the form is added and flushed, pushed by
\* auto_sync_on_trip_create inside a try, and committed; a form that cannot be
\* read leaves nothing behind
trip_new ==
    /\ app.events < MaxEvents
    /\ \E form_ok \in BOOLEAN, destination \in FormDestinations, name \in FormNames :
          LET now == app.events + 1
              start_date == DateV(2025, 6, 1)
              trip == InsertRow(TRIP_MODEL_COLUMNS, TRIP_DEFAULTS,
                                [id |-> IntV(trip_seq + 1),
                                 destination |-> StrV(destination),
                                 start_date |-> start_date,
                                 end_date |-> DateV(2025, 6, 8),
                                 max_passengers |-> IntV(10),
                                 internal_trip_details |-> StrV(""),
                                 trip_vendor_id |-> NoneV,
                                 name |-> IF name # "" THEN StrV(name)
                                          ELSE StrV(destination \o " - "
                                                    \o EncodeValue(start_date).v)],
                                now)
          IN  IF form_ok
              THEN /\ AutoSyncOnTripCreateOf("trip_new", trip, {})
                   /\ trip_seq' = trip_seq + 1
              ELSE /\ destination = "Paris" /\ name = ""
                   /\ app' = [app EXCEPT !.events = now, !.calls = << >>,
                                         !.last = [route |-> "trip_new", trip |-> NoneV,
                                                   row |-> EmptyDict, outcome |-> "error",
                                                   dependents |-> {}]]
                   /\ UNCHANGED <<trips, trip_seq, push>>
    /\ UNCHANGED <<codecVars, pullVars, syncVars, contacts, passengers, api, fm, lk, proc>>

\* trip_edit, POST: the fields of the form are assigned, the trip is pushed by
\* auto_sync_on_trip_update inside a try, and committed
trip_edit(row) ==
    /\ app.events < MaxEvents
    /\ row \in trips
    /\ \E form_ok \in BOOLEAN, destination \in FormDestinations, name \in FormNames :
          LET now == app.events + 1
              trip == UpdateRow(row,
                                IF name # ""
                                THEN [destination |-> StrV(destination),
                                      start_date |-> DateV(2025, 6, 1),
                                      end_date |-> DateV(2025, 6, 8),
                                      max_passengers |-> IntV(10),
                                      internal_trip_details |-> StrV(""),
                                      trip_vendor_id |-> NoneV,
                                      updated_at |-> IntV(now),
                                      name |-> StrV(name)]
                                ELSE [destination |-> StrV(destination),
                                      start_date |-> DateV(2025, 6, 1),
                                      end_date |-> DateV(2025, 6, 8),
                                      max_passengers |-> IntV(10),
                                      internal_trip_details |-> StrV(""),
                                      trip_vendor_id |-> NoneV,
                                      updated_at |-> IntV(now)])
          IN  IF form_ok
              THEN AutoSyncOnTripUpdateOf("trip_edit", trip, {row})
              ELSE /\ destination = "Paris" /\ name = ""
                   /\ app' = [app EXCEPT !.events = now, !.calls = << >>,
                                         !.last = [route |-> "trip_edit", trip |-> row.id,
                                                   row |-> row, outcome |-> "error",
                                                   dependents |-> {}]]
                   /\ UNCHANGED <<trips, push>>
    /\ UNCHANGED <<codecVars, pullVars, syncVars, contacts, passengers, trip_seq,
                   api, fm, lk, proc>>

\* sync_service.auto_sync_on_trip_create(trip) called on a stored trip
auto_sync_on_trip_create(row) ==
    /\ app.events < MaxEvents
    /\ row \in trips
    /\ AutoSyncOnTripCreateOf("auto_sync_on_trip_create", row, {row})
    /\ UNCHANGED <<codecVars, pullVars, syncVars, contacts, passengers, trip_seq,
                   api, fm, lk, proc>>

\* sync_service.auto_sync_on_trip_update(trip) called on a stored trip
auto_sync_on_trip_update(row) ==
    /\ app.events < MaxEvents
    /\ row \in trips
    /\ AutoSyncOnTripUpdateOf("auto_sync_on_trip_update", row, {row})
    /\ UNCHANGED <<codecVars, pullVars, syncVars, contacts, passengers, trip_seq,
                   api, fm, lk, proc>>

\* trip_delete: a delete_opportunity for the trip's opportunity when it has one
\* and for each of its passengers, each inside its own try; then the trip is
\* deleted and the session committed; a commit that fails (a row of files still
\* refers to the trip) is rolled back
trip_delete(row) ==
    /\ app.events < MaxEvents
    /\ row \in trips
    /\ LET dependents == TripPassengers(passengers, row)
       IN  \E trip_ok \in BOOLEAN, failing \in SUBSET dependents, order \in Orders(dependents),
              commit_ok \in BOOLEAN :
              /\ ~Truthy(row.ghl_opportunity_id) => trip_ok
              /\ app' = [app EXCEPT
                            !.events = @ + 1,
                            !.calls = (IF Truthy(row.ghl_opportunity_id)
                                       THEN <<Request("delete", row.ghl_opportunity_id, "",
                                                      NoneV, trip_ok)>>
                                       ELSE << >>)
                                      \o [i \in DOMAIN order |->
                                             Request("delete", order[i].id, "", NoneV,
                                                     order[i] \notin failing)],
                            !.last = [route |-> "trip_delete", trip |-> row.id, row |-> row,
                                      outcome |-> IF commit_ok THEN "info" ELSE "error",
                                      dependents |-> dependents]]
              /\ IF commit_ok
                 THEN /\ trips' = trips \ {row}
                      /\ passengers' = CascadeDelete(passengers, row)
                 ELSE UNCHANGED <<trips, passengers>>
    /\ UNCHANGED <<codecVars, pullVars, syncVars, contacts, trip_seq, push, api, fm, lk, proc>>

\* a trip that was stored before, with or without an opportunity, and two
\* passengers, one of them on the trip
AppInit ==
    /\ tz = 0
    /\ CodecIdle /\ PullIdle /\ SyncIdle
    /\ push = NoPush /\ api = NoApi /\ fm = NoFm /\ lk = NoLk /\ proc = NoProc
    /\ contacts = {StrV("c1")} /\ trip_seq = 1
    /\ \E ghl_opportunity_id \in {NoneV, StrV("opp1")}, trip_id \in {NoneV, IntV(1)} :
          /\ trips = {InsertRow(TRIP_MODEL_COLUMNS, TRIP_DEFAULTS,
                                [id |-> IntV(1), ghl_opportunity_id |-> ghl_opportunity_id,
                                 name |-> StrV("Rome")], 0)}
          /\ passengers =
                {InsertRow(PASSENGER_MODEL_COLUMNS, PASSENGER_DEFAULTS,
                           [id |-> StrV("opp2"), contact_id |-> StrV("c1"),
                            trip_id |-> IntV(1)], 0),
                 InsertRow(PASSENGER_MODEL_COLUMNS, PASSENGER_DEFAULTS,
                           [id |-> StrV("opp3"), contact_id |-> StrV("c1"),
                            trip_id |-> trip_id], 0)}
          /\ app = [NoApp EXCEPT
                       !.created = [i \in {1} |-> IF Truthy(ghl_opportunity_id) THEN 1 ELSE 0]]

AppNext ==
    \/ trip_new
    \/ \E row \in trips : trip_edit(row)
    \/ \E row \in trips : auto_sync_on_trip_create(row)
    \/ \E row \in trips : auto_sync_on_trip_update(row)
    \/ \E row \in trips : trip_delete(row)

SpecApp == AppInit /\ [][AppNext]_vars


(***************************************************************************)
(* Properties of the trip routes                                           *)
(***************************************************************************)
\* the delete requests the last route sent for the opportunity
DeletesOf(id) == {i \in DOMAIN app.calls : app.calls[i].req = "delete" /\ app.calls[i].id = id}

\* C22: trip_delete sends one delete for the trip's opportunity when the trip
\* has one and one for each passenger of the trip, and nothing else, whether or
\* not any of them fails; after a trip_delete that succeeded neither the trip nor
\* a passenger that referred to it is in the local store
C22_TripDeleteRemovesTripAndPassengers ==
    app.last.route = "trip_delete" =>
        LET row == app.last.row
        IN  /\ Truthy(row.ghl_opportunity_id) =>
                  (DeletesOf(row.ghl_opportunity_id) = {1})
            /\ \A p \in app.last.dependents : Cardinality(DeletesOf(p.id)) = 1
            /\ Len(app.calls) = Cardinality(app.last.dependents)
                                + (IF Truthy(row.ghl_opportunity_id) THEN 1 ELSE 0)
            /\ \A i \in DOMAIN app.calls : app.calls[i].req = "delete"
            /\ app.last.outcome = "info" =>
                  /\ \A t \in trips : t.id # row.id
                  /\ \A p \in passengers : p.trip_id # row.id
                  /\ app.last.dependents \cap passengers = {}

\* a trip with an opportunity and two passengers was deleted although the delete
\* of its opportunity and of a passenger's opportunity failed
C22_Witness ==
    /\ app.last.route = "trip_delete" /\ app.last.outcome = "info"
    /\ Truthy(app.last.row.ghl_opportunity_id)
    /\ Cardinality(app.last.dependents) = 2
    /\ ~app.calls[1].ok
    /\ \E i \in DOMAIN app.calls : i > 1 /\ ~app.calls[i].ok
    /\ \E i \in DOMAIN app.calls : i > 1 /\ app.calls[i].ok
    /\ trips = {} /\ passengers = {}

\* what the handlers of the last route did
HandlerPushed ==
    /\ \A i \in DOMAIN app.created : app.created[i] <= 1
    /\ (app.last.route \in {"trip_new", "auto_sync_on_trip_create"}
        /\ app.last.outcome # "error") =>
          /\ (app.calls # << >>) = ~Truthy(app.last.row.ghl_opportunity_id)
          /\ \A i \in DOMAIN app.calls : app.calls[i].req \in {"get_pipelines", "create"}
    /\ (app.last.route \in {"trip_edit", "auto_sync_on_trip_update"}
        /\ app.last.outcome # "error") =>
          /\ (app.calls # << >>) = Truthy(app.last.row.ghl_opportunity_id)
          /\ \A i \in DOMAIN app.calls :
                /\ app.calls[i].req \in {"update", "upsert"}
                /\ app.calls[i].id = app.last.row.ghl_opportunity_id

LargeLimits == {DefaultLimit, SearchLimitCap, SearchLimitCap + 1, 2 * SearchLimitCap}
LargeSizes == {SearchLimitCap - 1, SearchLimitCap, SearchLimitCap + 1, 2 * SearchLimitCap + 1}

\* the CRM holds n trip and n passenger opportunities; only contact c1 is known
\* locally, so no passenger opportunity has its contact in the local store
LargeLimitInit ==
    /\ tz = 0
    /\ CodecIdle /\ PullIdle
    /\ contacts = {StrV("c1")} /\ trips = {} /\ passengers = {} /\ trip_seq = 0
    /\ \E n \in LargeSizes, t \in BOOLEAN :
          crm = [NoCrm EXCEPT !.trips = [i \in 1..n |-> TripOppAt(i)],
                              !.passengers = [i \in 1..n |-> PassengerOppAt(i)],
                              !.has_total = t]
    /\ aux = NoAux /\ sync_logs = << >> /\ fs = [FsIdle EXCEPT !.caller = "direct"]
    /\ ToolIdle

LargeLimitNext ==
    \/ \E stage \in {"trips", "passengers"}, limit \in LargeLimits : BulkCall(stage, limit)
    \/ SyncTripsPage
    \/ SyncPassengersPage

SpecLargeLimit == LargeLimitInit /\ [][LargeLimitNext]_vars

\* C28: a bulk pull of passengers that returned without an exception has asked
\* for every page of min(limit, 500) opportunities that holds an opportunity, so
\* that no opportunity of the pipeline was left unfetched, whatever the limit
C28_EveryPageFetched ==
    (/\ fs.pc = "returned"
     /\ TraceHas(fs, <<"start", "passengers">>)
     /\ fs.caught = "")
        => LET size == Min(fs.limit, SearchLimitCap)
               fetched == FetchedPages(fs)
           IN  /\ \A k \in DOMAIN fetched : fetched[k] = k
               /\ Len(fetched) * size >= Len(crm.passengers)


(***************************************************************************)
(* ghl_sync.py : perform_full_sync when a contacts page holds an entry     *)
(* that is no dict                                                         *)
(***************************************************************************)
\* the contacts the CRM answers with: JSON objects, and a null among them
BrokenContactLists ==
    {<<ContactAt(1), NoneV>>, <<NoneV, ContactAt(1)>>, <<ContactAt(1), ContactAt(2), NoneV>>,
     <<ContactAt(1), ContactAt(2)>>}

PageFailureInit ==
    /\ tz = 0
    /\ CodecIdle /\ StoreEmpty /\ PullIdle
    /\ \E f \in CrmFieldLists, a \in BrokenContactLists, b \in 0..MaxRecords,
          c \in 0..MaxRecords :
          crm = [fields |-> f, contacts |-> a,
                 trips |-> [i \in 1..b |-> TripOppAt(i)],
                 passengers |-> [i \in 1..c |-> PassengerOppAt(i)],
                 has_total |-> TRUE]
    /\ aux = NoAux /\ sync_logs = << >> /\ fs = FsIdle
    /\ ToolIdle

SpecPageFailure == PageFailureInit /\ [][FullSyncNext]_vars

\* the entries of the contacts page that come before its first entry that is no
\* dict: the records the loop had added when it raised
AddedBeforeFailure ==
    {crm.contacts[i].id : i \in {j \in DOMAIN crm.contacts :
                                    /\ crm.contacts[j] # NoneV
                                    /\ \E k \in DOMAIN crm.contacts :
                                          k > j /\ crm.contacts[k] = NoneV
                                    /\ \A k \in 1..j : crm.contacts[k] # NoneV}}

\* C25: once the page loop of a stage has caught the exception a record raised, no
\* record of that page that had been added before is in the local store, neither
\* then nor after the commits the rest of the run makes
C25_FailedPageNotPersistent ==
    TraceHas(fs, <<"caught", "contacts">>) => AddedBeforeFailure \cap contacts = {}

(***************************************************************************)
(* Properties of the page loops                                            *)
(***************************************************************************)
\* the events of the trace that belong to the stage's pages
PageEvents(stage) ==
    SelectSeq(fs.trace, LAMBDA e : e[1] \in {"fetch", "commit", "caught"} /\ e[2] = stage)

\* fetch 1, commit 1, fetch 2, commit 2, ...: each page is asked for after the
\* page before it was committed, and nothing is asked for ahead
InPageOrder(stage) ==
    LET events == PageEvents(stage)
    IN  \A k \in DOMAIN events :
           /\ events[k][1] = "fetch" =>
                 /\ events[k][3] = (k + 1) \div 2
                 /\ k % 2 = 1
                 /\ k > 1 => events[k - 1] = <<"commit", stage, events[k][3] - 1>>
           /\ events[k][1] = "commit" =>
                 (k > 1 /\ events[k - 1] = <<"fetch", stage, events[k][3]>>)
           /\ events[k][1] = "caught" =>
                 (k = Len(events) /\ k > 1 /\ events[k - 1][1] = "fetch")

Procs == {1, 2}
\* a process that has not called the pull yet
ProcStart == [pc |-> "start", kind |-> "", id |-> "", found |-> {}, outcome |-> ""]

\* inserts that the database never refuses
IntegrityError_Never(table, rows, row) == FALSE

\* the INSERT of the row violates the primary key of the table, or
\* ghl_opportunity_id = db.Column(String(100), unique=True) of trips
IntegrityError(table, rows, row) ==
    \E r \in rows :
        \/ r.id = row.id
        \/ /\ table = "trips"
           /\ row.ghl_opportunity_id # NoneV
           /\ r.ghl_opportunity_id = row.ghl_opportunity_id

\* a process runs a single pull up to its query: the fetch succeeded, the contact
\* of a passenger opportunity is local, and the query saw the committed rows
ProcQuery(p, kind, o) ==
    /\ p \in DOMAIN proc
    /\ proc[p].pc = "start"
    /\ remote[o].exists
    /\ kind = "pull_passenger" =>
          LET contact_id == OppGet(remote[o], "contactId")
          IN  Truthy(contact_id) /\ ContactQueryGet(contacts, contact_id)
    /\ proc' = [proc EXCEPT ![p] =
                   [pc |-> "queried", kind |-> kind, id |-> o, outcome |-> "",
                    found |-> IF kind = "pull_trip" THEN TripQueryFirst(trips, o)
                              ELSE PassengerQueryGet(passengers, StrV(o))]]
    /\ UNCHANGED <<codecVars, storeVars, pullVars, syncVars, push, api, fm, lk, app>>

\* how the commit of a single pull ends: the decoding raised before it, the
\* INSERT of a new object is refused, the row to update is gone, or it is stored
CommitOutcome(raised, found, current, refused) ==
    IF raised THEN "decode"
    ELSE IF found = {} /\ refused THEN "IntegrityError"
    ELSE IF found # {} /\ current = {} THEN "StaleDataError"
    ELSE "stored"

\* the outcome together with the table after it
CommitResult(rows, current, row, outcome) ==
    [outcome |-> outcome,
     rows |-> IF outcome = "stored" THEN Commit(rows, current, row) ELSE rows]

\* the row the commit writes: an INSERT for the object the query did not find,
\* an UPDATE by primary key of the row it found
CommitRow(kind, found, current, set, now) ==
    IF found = {}
    THEN IF kind = "pull_trip" THEN InsertRow(TRIP_MODEL_COLUMNS, TRIP_DEFAULTS, set, now)
         ELSE InsertRow(PASSENGER_MODEL_COLUMNS, PASSENGER_DEFAULTS, set, now)
    ELSE IF current = {} THEN EmptyDict
    ELSE UpdateRow(CHOOSE r \in current : TRUE, set)

\* the rows of the table that have the primary key of the row the query found
CurrentOf(rows, found) == {r \in rows : \E f \in found : r.id = f.id}

\* the rest of the pull of the process: the attributes are assigned and
\* db.session.commit() writes; an exception leaves the function
ProcCommit(p) ==
    /\ p \in DOMAIN proc
    /\ proc[p].pc = "queried"
    /\ \E kind \in {proc[p].kind}, found \in {proc[p].found} :
          \E rows \in {IF kind = "pull_trip" THEN trips ELSE passengers},
             pulled \in {IF kind = "pull_trip" THEN PulledTrip(proc[p].id, found)
                         ELSE PulledPassenger(proc[p].id, found)} :
             \E current \in {CurrentOf(rows, found)} :
                \E row \in {CommitRow(kind, found, current, pulled.set, clock + 1)} :
                   \E result \in
                         {CommitResult(rows, current, row,
                                       CommitOutcome(pulled.raised, found, current,
                                                     IntegrityError(
                                                         IF kind = "pull_trip" THEN "trips"
                                                         ELSE "passengers", rows, row)))} :
                      /\ proc' = [proc EXCEPT ![p] = [@ EXCEPT !.pc = "done",
                                                               !.outcome = result.outcome]]
                      /\ trips' = IF kind = "pull_trip" THEN result.rows ELSE trips
                      /\ passengers' = IF kind = "pull_passenger" THEN result.rows
                                       ELSE passengers
                      /\ trip_seq' = IF kind = "pull_trip" /\ found = {}
                                        /\ result.outcome = "stored"
                                     THEN trip_seq + 1 ELSE trip_seq
    /\ clock' = clock + 1
    /\ UNCHANGED <<codecVars, syncVars, contacts, remote, edits, lastOp, push, api, fm, lk, app>>

\* the CRM holds both opportunities, which belong to the local contact; nothing
\* is stored yet
UniqueInit ==
    /\ tz = 0
    /\ CodecIdle
    /\ contacts = {StrV("c1")} /\ trips = {} /\ passengers = {} /\ trip_seq = 0
    /\ remote = [o \in OppIds |-> RemoteRecord(StrV("c1"), WireList(<< >>))]
    /\ edits = 0 /\ clock = 0 /\ lastOp = NoOp
    /\ crm = [NoCrm EXCEPT !.trips = <<TripOppAt(1), TripOppAt(2)>>,
                           !.passengers = <<PassengerOppAt(1)>>]
    /\ aux = NoAux /\ sync_logs = << >> /\ fs = [FsIdle EXCEPT !.caller = "direct"]
    /\ push = NoPush /\ api = NoApi /\ fm = NoFm /\ lk = NoLk /\ app = NoApp
    /\ proc = [p \in Procs |-> ProcStart]

UniqueNext ==
    \/ \E stage \in {"trips", "passengers"} : BulkCall(stage, 1)
    \/ SyncTripsPage
    \/ SyncPassengersPage
    \* the pushes that write to the store: the create branch
    \/ \E row \in trips : PushTrip(row, TRUE)
    \/ \E row \in passengers : PushPassenger(row, TRUE)
    \/ \E p \in Procs, kind \in {"pull_trip", "pull_passenger"}, o \in OppIds :
          ProcQuery(p, kind, o)
    \/ \E p \in Procs : ProcCommit(p)

SpecUnique == UniqueInit /\ [][UniqueNext]_vars

\* C23: no two trips hold the same CRM opportunity id and no two passengers the
\* same id, whatever bulk pulls, single pulls and pushes have run, and also when
\* two processes pull the same new opportunity at the same time
C23_UniqueOpportunityIds ==
    /\ \A t, u \in trips :
          (t.ghl_opportunity_id # NoneV /\ t.ghl_opportunity_id = u.ghl_opportunity_id)
              => t = u
    /\ \A t, u \in trips : t.id = u.id => t = u
    /\ \A p, q \in passengers : p.id = q.id => p = q

\* both processes queried for the same opportunity before either had stored it;
\* the insert of one was stored and the insert of the other failed
C23_Witness ==
    /\ \A p \in Procs : proc[p].pc = "done" /\ proc[p].found = {}
    /\ proc[1].kind = proc[2].kind /\ proc[1].id = proc[2].id
    /\ {proc[1].outcome, proc[2].outcome} = {"stored", "IntegrityError"}
    /\ \/ proc[1].kind = "pull_trip"
          /\ Cardinality({t \in trips : t.ghl_opportunity_id = StrV(proc[1].id)}) = 1
       \/ proc[1].kind = "pull_passenger"
          /\ Cardinality({q \in passengers : q.id = StrV(proc[1].id)}) = 1

====
